---- MODULE Spec2Model ----
(***************************************************************************)
(* CXR report workflow: the Streamlit driver (loop.py), the workflow       *)
(* CXR_Report_Generator (reader.py) and the report store (save_report).    *)
(*                                                                         *)
(* Text is a sequence of one-character strings, so that lower(), strip(),  *)
(* len(), split() and substring tests are computed as Python computes      *)
(* them.  st.session_state is one function from keys to values; a key is   *)
(* <<name>> for a global key and <<prefix, image_id>> for a per-image key, *)
(* with image_id = <<index, patient_id>> standing for "img_{index}_{pid}". *)
(***************************************************************************)
EXTENDS Integers, Sequences, FiniteSets, TLC

VARIABLES
    ss,         \* st.session_state
    rerun,      \* the last pass ended in st.rerun()
    rendered,   \* the input widgets the last pass rendered
    calls,      \* delegated capability calls of the current / last pass
    uncaught,   \* the last pass ended by an exception nobody caught
    ret,        \* what generate_cxr_report / run / run_qa_session returned last
    gen,        \* activation of generate_cxr_report (attempt loop)
    saved,      \* the save_report calls of the last pass, as their arguments
    event,      \* what triggered the last pass, or the last direct call
    obs         \* what the reader did in the attempts of the activation

vars == <<ss, rerun, rendered, calls, uncaught, ret, gen, saved, event, obs>>

(***************************************************************************)
(* Text                                                                    *)
(***************************************************************************)
UpperAlphabet ==
    <<"A","B","C","D","E","F","G","H","I","J","K","L","M",
      "N","O","P","Q","R","S","T","U","V","W","X","Y","Z">>

LowerAlphabet ==
    <<"a","b","c","d","e","f","g","h","i","j","k","l","m",
      "n","o","p","q","r","s","t","u","v","w","x","y","z">>

Whitespace == {" ", "\n", "\t"}

\* str.lower() on one character
LowerMap == [c \in {UpperAlphabet[i] : i \in 1..26} |->
                LowerAlphabet[CHOOSE i \in 1..26 : UpperAlphabet[i] = c]]

LowerChar(c) == IF c \in DOMAIN LowerMap THEN LowerMap[c] ELSE c

\* str.lower()
Lower(s) == SubSeq([i \in 1..Len(s) |-> LowerChar(s[i])], 1, Len(s))

\* str.strip(): drops leading and trailing whitespace
Strip(s) ==
    IF \A i \in 1..Len(s) : s[i] \in Whitespace THEN <<>>
    ELSE LET lo == CHOOSE i \in 1..Len(s) :
                       /\ s[i] \notin Whitespace
                       /\ \A j \in 1..(i - 1) : s[j] \in Whitespace
             hi == CHOOSE i \in 1..Len(s) :
                       /\ s[i] \notin Whitespace
                       /\ \A j \in (i + 1)..Len(s) : s[j] \in Whitespace
         IN  SubSeq(s, lo, hi)

\* Python's `sub in s`
Contains(sub, s) ==
    \E i \in 1..(Len(s) - Len(sub) + 1) : SubSeq(s, i, i + Len(sub) - 1) = sub

\* n filler characters
Pad(n) == SubSeq([i \in 1..n |-> "x"], 1, n)

\* RunResponse(content=...)
RunResponse(content) == [content |-> content]

\* str(e) of the exception a delegated capability raises
ExcMessage == <<"b","o","o","m">>

(***************************************************************************)
(* generate_cxr_report: the attempt loop over the image-analysis capability *)
(***************************************************************************)
ATTEMPTS == 15

MinLen == 500

ban_words == { <<"s","o","r","r","y">>,
               <<"c","e","r","t","a","i","n","l","y">>,
               <<"A","I">> }

\* the condition of `continue`: the result is not accepted
GateRejects(content) ==
    \/ Len(content) < MinLen
    \/ \E word \in ban_words : Contains(word, Lower(Strip(content)))

ErrorGeneratingReport ==
    <<"E","r","r","o","r"," ","g","e","n","e","r","a","t","i","n","g"," ",
      "r","e","p","o","r","t",":"," ">> \o ExcMessage

\* what self.reader.run(images=[image]) can do: return a response or raise
Raises == [raises |-> TRUE]

Returns(content) == [raises |-> FALSE, content |-> content]

\* contents on both sides of every test of the quality gate
GateContents ==
    { <<"o","k">>,
      Pad(MinLen - 1),
      Pad(MinLen),
      <<" ","S","o","r","r","y">> \o Pad(MinLen),
      <<"C","E","R","T","A","I","N","L","Y">> \o Pad(MinLen),
      <<"A","I">> \o Pad(MinLen - 2),
      <<"a","i">> \o Pad(MinLen) }

GateOutcomes == {Raises} \cup {Returns(c) : c \in GateContents}

\* no attempt was made yet
NoAttempts == [verdicts |-> <<>>, last |-> <<>>]

GenIdle == [status |-> "idle", attempt |-> 0, calls |-> 0,
            reader_ans |-> <<>>, ret |-> <<>>]

\* entry of generate_cxr_report
GenEnter == [GenIdle EXCEPT !.status = "running"]

\* GenStep with the loop running one attempt too many: range(ATTEMPTS + 1)
GenStepExtraAttempt(g, outcome) ==
    IF outcome.raises
    THEN [g EXCEPT !.status = "returned",
                   !.calls = g.calls + 1,
                   !.ret = <<RunResponse(ErrorGeneratingReport)>>]
    ELSE IF GateRejects(outcome.content) /\ g.attempt + 1 < ATTEMPTS + 1
    THEN [g EXCEPT !.attempt = g.attempt + 1,
                   !.calls = g.calls + 1,
                   !.reader_ans = <<RunResponse(outcome.content)>>]
    ELSE [g EXCEPT !.status = "returned",
                   !.attempt = g.attempt + 1,
                   !.calls = g.calls + 1,
                   !.reader_ans = <<RunResponse(outcome.content)>>,
                   !.ret = <<RunResponse(outcome.content)>>]

\* GenStep with the try inside the loop: an exception of the reader costs
\* the attempt and the loop goes on
GenStepRetryOnError(g, outcome) ==
    IF outcome.raises /\ g.attempt + 1 < ATTEMPTS
    THEN [g EXCEPT !.attempt = g.attempt + 1,
                   !.calls = g.calls + 1]
    ELSE IF outcome.raises
    THEN [g EXCEPT !.status = "returned",
                   !.calls = g.calls + 1,
                   !.ret = <<RunResponse(ErrorGeneratingReport)>>]
    ELSE IF GateRejects(outcome.content) /\ g.attempt + 1 < ATTEMPTS
    THEN [g EXCEPT !.attempt = g.attempt + 1,
                   !.calls = g.calls + 1,
                   !.reader_ans = <<RunResponse(outcome.content)>>]
    ELSE [g EXCEPT !.status = "returned",
                   !.attempt = g.attempt + 1,
                   !.calls = g.calls + 1,
                   !.reader_ans = <<RunResponse(outcome.content)>>,
                   !.ret = <<RunResponse(outcome.content)>>]

\* one iteration of `for attempt in range(ATTEMPTS)`, with the return that
\* follows the loop and the except clause around it
GenStep(g, outcome) ==
    IF outcome.raises
    THEN [g EXCEPT !.status = "returned",
                   !.calls = g.calls + 1,
                   !.ret = <<RunResponse(ErrorGeneratingReport)>>]
    ELSE LET ans  == RunResponse(outcome.content)
             last == g.attempt + 1 >= ATTEMPTS
         IN  IF GateRejects(outcome.content) /\ ~last
             THEN [g EXCEPT !.attempt = g.attempt + 1,
                            !.calls = g.calls + 1,
                            !.reader_ans = <<ans>>]
             ELSE [g EXCEPT !.status = "returned",
                            !.attempt = g.attempt + 1,
                            !.calls = g.calls + 1,
                            !.reader_ans = <<ans>>,
                            !.ret = <<ans>>]

\* generate_cxr_report run to its return against a reader that behaves as
\* script says, attempt by attempt
RECURSIVE GenRun(_, _)
GenRun(g, script) ==
    IF g.status # "running" \/ script = <<>> THEN g
    ELSE GenRun(GenStep(g, Head(script)), Tail(script))

generate_cxr_report(script) == GenRun(GenEnter, script)

(***************************************************************************)
(* st.session_state                                                        *)
(***************************************************************************)
Has(s, k) == k \in DOMAIN s

Get(s, k, default) == IF k \in DOMAIN s THEN s[k] ELSE default

Put(s, k, v) == (k :> v) @@ s

Del(s, k) == [x \in DOMAIN s \ {k} |-> s[x]] @@ <<>>

DelAll(s, ks) == [x \in DOMAIN s \ ks |-> s[x]] @@ <<>>

EmptyState == <<>>

\* image_id = f"img_{index}_{patient_id}"
ImageId(index, record) == <<index, record.patient_id>>

chat_history_key(id) == <<"chat_history_", id>>
qa_complete_key(id) == <<"qa_complete_", id>>
final_report_key(id) == <<"final_report_", id>>
current_report_key(id) == <<"current_report_", id>>
pending_msg_key(id) == <<"pending_msg_", id>>
report_key(id) == <<"report_", id>>
qa_anchor_key(id) == <<"qa_anchor_", id>>

current_image_index(s) == Get(s, <<"current_image_index">>, 0)
all_reports(s) == Get(s, <<"all_reports">>, <<>>)

(***************************************************************************)
(* save_report                                                             *)
(***************************************************************************)
Unknown == "Unknown"

\* Survivors with the entries of an unknown patient removed like the others
RECURSIVE SurvivorsAnyPatient(_, _, _)
SurvivorsAnyPatient(reports, patient_id, follow_up) ==
    IF reports = <<>> THEN <<>>
    ELSE IF /\ Head(reports).patient_id = patient_id
            /\ Head(reports).follow_up = follow_up
         THEN SurvivorsAnyPatient(Tail(reports), patient_id, follow_up)
         ELSE <<Head(reports)>>
                \o SurvivorsAnyPatient(Tail(reports), patient_id, follow_up)

\* Survivors with the removal decided on the patient alone
RECURSIVE SurvivorsByPatient(_, _, _)
SurvivorsByPatient(reports, patient_id, follow_up) ==
    IF reports = <<>> THEN <<>>
    ELSE IF /\ Head(reports).patient_id = patient_id
            /\ patient_id # Unknown
         THEN SurvivorsByPatient(Tail(reports), patient_id, follow_up)
         ELSE <<Head(reports)>>
                \o SurvivorsByPatient(Tail(reports), patient_id, follow_up)

\* the entries of `reports` that survive the pops of existing_indices
RECURSIVE Survivors(_, _, _)
Survivors(reports, patient_id, follow_up) ==
    IF reports = <<>> THEN <<>>
    ELSE LET report == Head(reports)
             rest   == Survivors(Tail(reports), patient_id, follow_up)
         IN  IF /\ report.patient_id = patient_id
                /\ report.follow_up = follow_up
                /\ patient_id # Unknown
             THEN rest
             ELSE <<report>> \o rest

\* save_report without the removal of the entries of the same patient and
\* follow-up
save_report_no_dedup(s, report_content, patient_id, follow_up) ==
    Put(s, <<"all_reports">>,
        Append(all_reports(s), [content |-> report_content,
                                patient_id |-> patient_id,
                                follow_up |-> follow_up]))

\* save_report(report_content, patient_id, follow_up) on session state s.
\* The uuid and the timestamp of an entry are fresh values nothing reads;
\* an entry is modelled by its content and its key fields.
save_report(s, report_content, patient_id, follow_up) ==
    LET new_report == [content |-> report_content,
                       patient_id |-> patient_id,
                       follow_up |-> follow_up]
        kept == IF Has(s, <<"all_reports">>)
                THEN Survivors(s[<<"all_reports">>], patient_id, follow_up)
                ELSE <<>>
    IN  Put(s, <<"all_reports">>, Append(kept, new_report))

(***************************************************************************)
(* parse_report and the re-assembly of the edited sections                 *)
(***************************************************************************)
sections ==
    << <<"P","a","t","i","e","n","t"," ","I","n","f","o","r","m","a","t","i","o","n">>,
       <<"F","i","n","d","i","n","g","s">>,
       <<"I","m","p","r","e","s","s","i","o","n">>,
       <<"P","l","a","n">> >>

\* the literal the pattern f"\\*\\*{section}:\\*\\*" matches
Marker(section) == <<"*","*">> \o section \o <<":","*","*">>

\* re.search: index of the first occurrence of sub in s, 0 when there is none
Search(sub, s) ==
    LET hits == {i \in 1..(Len(s) - Len(sub) + 1) : SubSeq(s, i, i + Len(sub) - 1) = sub}
    IN  IF hits = {} THEN 0 ELSE CHOOSE i \in hits : \A j \in hits : i <= j

\* SectionEnd that lets every section run to the end of the text
SectionEndAtTextEnd(report_content, start_idx, end_match) == Len(report_content)

\* the end of a section that starts at start_idx, end_match being where
\* the marker of the next section was found in the rest of the text
SectionEnd(report_content, start_idx, end_match) ==
    IF end_match # 0 THEN start_idx + end_match - 2 ELSE Len(report_content)

\* NextMarker that searches the marker of any later section
NextMarkerAnyLater(report_content, i, start_idx) ==
    LET rest == SubSeq(report_content, start_idx, Len(report_content))
        hits == {Search(Marker(sections[j]), rest) : j \in (i + 1)..Len(sections)} \ {0}
    IN  IF hits = {} THEN 0 ELSE CHOOSE h \in hits : \A g \in hits : h <= g

\* the marker of the next section searched in report_content[start_idx:]
NextMarker(report_content, i, start_idx) ==
    IF i < Len(sections)
    THEN Search(Marker(sections[i + 1]),
                SubSeq(report_content, start_idx, Len(report_content)))
    ELSE 0

\* the content of the section whose marker ends right before start_idx
SectionFrom(report_content, i, start_idx) ==
    Strip(SubSeq(report_content, start_idx,
                 SectionEnd(report_content, start_idx,
                            NextMarker(report_content, i, start_idx))))

\* SectionAt that gives a section without marker the whole text
SectionAtWholeText(report_content, i, at) ==
    IF at = 0 THEN report_content
    ELSE SectionFrom(report_content, i, at + Len(Marker(sections[i])))

\* the content of section number i, whose marker was found at `at`
SectionAt(report_content, i, at) ==
    IF at = 0 THEN <<>>
    ELSE SectionFrom(report_content, i, at + Len(Marker(sections[i])))

\* the content parse_report gives section number i of report_content
SectionContent(report_content, i) ==
    SectionAt(report_content, i, Search(Marker(sections[i]), report_content))

\* parse_report: section number -> content, in the order of `sections`
parse_report(report_content) ==
    [i \in 1..Len(sections) |-> SectionContent(report_content, i)]

\* JoinFrom that writes the names of the sections as markers
RECURSIVE JoinFromWithMarkers(_, _)
JoinFromWithMarkers(parsed_report, i) ==
    Marker(sections[i]) \o <<"\n">> \o parsed_report[i] \o
    (IF i = Len(sections) THEN <<>>
     ELSE <<"\n","\n">> \o JoinFromWithMarkers(parsed_report, i + 1))

\* "\n\n".join(f"{key}\n{value}" for key, value in parsed_report.items())
RECURSIVE JoinFrom(_, _)
JoinFrom(parsed_report, i) ==
    sections[i] \o <<"\n">> \o parsed_report[i] \o
    (IF i = Len(sections) THEN <<>>
     ELSE <<"\n","\n">> \o JoinFrom(parsed_report, i + 1))

JoinSections(parsed_report) == JoinFrom(parsed_report, 1)

(***************************************************************************)
(* run_qa_session                                                          *)
(***************************************************************************)
stop_words ==
    { <<"s","t","o","p">>, <<"q","u","i","t">>, <<"e","x","i","t">>,
      <<"f","i","n","i","s","h">>, <<"e","n","d">> }

report_sections ==
    { <<"P","a","t","i","e","n","t"," ","I","n","f","o","r","m","a","t","i","o","n",":">>,
      <<"F","i","n","d","i","n","g","s",":">>,
      <<"I","m","p","r","e","s","s","i","o","n",":">>,
      <<"P","l","a","n",":">> }

\* str(response) of a RunResponse: some non-empty rendering of the object
StrOf(response) ==
    <<"R","u","n","R","e","s","p","o","n","s","e","(","c","o","n","t","e","n",
      "t","=">>
      \o response.content \o <<")">>

\* the warning sign that starts the error entries is written (!)
WarningSign == <<"(","!",")"," ">>

FinalErrorEntry ==
    WarningSign \o
    <<"E","r","r","o","r"," ","g","e","n","e","r","a","t","i","n","g"," ","f",
      "i","n","a","l"," ","r","e","p","o","r","t",":"," ">>
      \o ExcMessage \o
    <<" ","P","l","e","a","s","e"," ","t","r","y"," ","a","g","a","i","n"," ",
      "o","r"," ","c","o","n","t","a","c","t"," ","s","u","p","p","o","r","t",
      ".">>

AnswerErrorEntry ==
    WarningSign \o
    <<"I"," ","e","n","c","o","u","n","t","e","r","e","d"," ","a","n"," ","e",
      "r","r","o","r"," ","w","h","i","l","e"," ","p","r","o","c","e","s","s",
      "i","n","g"," ","y","o","u","r"," ","q","u","e","s","t","i","o","n",":",
      " ">>
      \o ExcMessage \o
    <<"."," ","P","l","e","a","s","e"," ","t","r","y"," ","a","g","a","i","n",
      " ","o","r"," ","r","e","p","h","r","a","s","e"," ","y","o","u","r"," ",
      "q","u","e","s","t","i","o","n",".">>

CompleteEntry ==
    <<"Q","&","A"," ","s","e","s","s","i","o","n"," ","c","o","m","p","l","e",
      "t","e","."," ","F","i","n","a","l"," ","r","e","p","o","r","t"," ","g",
      "e","n","e","r","a","t","e","d",".">>

WaitingContent ==
    <<"W","a","i","t","i","n","g"," ","f","o","r"," ","r","e","s","p","o","n",
      "s","e",".",".",".">>

\* "Q&A session for image {image_id} in progress. ...", without the image id
InProgressContent ==
    <<"Q","&","A"," ","s","e","s","s","i","o","n"," ","i","n"," ","p","r","o",
      "g","r","e","s","s","."," ","A","s","k"," ","q","u","e","s","t","i","o",
      "n","s"," ","a","b","o","u","t"," ","t","h","e"," ","r","e","p","o","r",
      "t",".">>

ErrorContent == <<"E","r","r","o","r",":"," ">> \o ExcMessage

UpdatedTheReport ==
    <<"I","'","v","e"," ","u","p","d","a","t","e","d"," ","t","h","e"," ","r",
      "e","p","o","r","t",".">>

\* s.split(sep) for a one-character separator
RECURSIVE Split(_, _)
Split(s, sep) ==
    LET at == Search(<<sep>>, s)
    IN  IF at = 0 THEN <<s>>
        ELSE <<SubSeq(s, 1, at - 1)>> \o Split(SubSeq(s, at + 1, Len(s)), sep)

\* [s.strip() for s in pieces if s.strip()]
RECURSIVE StrippedNonEmpty(_)
StrippedNonEmpty(pieces) ==
    IF pieces = <<>> THEN <<>>
    ELSE LET p == Strip(Head(pieces))
         IN  (IF p = <<>> THEN <<>> ELSE <<p>>) \o StrippedNonEmpty(Tail(pieces))

\* ChatDisplayContent that keeps the first sentence of a report
ChatDisplayContentFirstSentence(response_content) ==
    IF \E section \in report_sections : Contains(section, response_content)
    THEN StrippedNonEmpty(Split(response_content, "."))[1]
    ELSE response_content

\* the chat reply kept for a direct answer (chat_display_content)
ChatDisplayContent(response_content) ==
    LET is_report_format == \E section \in report_sections :
                                Contains(section, response_content)
        sentences == StrippedNonEmpty(Split(response_content, "."))
    IN  IF is_report_format
        THEN IF sentences # <<>> THEN sentences[Len(sentences)] ELSE UpdatedTheReport
        ELSE response_content

\* `x.content if hasattr(x, "content") and x.content else str(x)`
ValidContent(response) ==
    IF response.content # <<>> THEN response.content ELSE StrOf(response)

\* an execution context threaded through the code of one pass: the session
\* state and what the pass has done so far
Ctx(s) == [ss |-> s, calls |-> <<>>, rerun |-> FALSE, uncaught |-> FALSE,
           rendered |-> {}, ret |-> <<>>, saved |-> <<>>]

\* st.session_state[k] = v
With(X, k, v) == [X EXCEPT !.ss = Put(@, k, v)]

\* if k in st.session_state: del st.session_state[k]
Without(X, k) == [X EXCEPT !.ss = IF Has(@, k) THEN Del(@, k) ELSE @]

\* st.rerun()
Rerun(X) == [X EXCEPT !.rerun = TRUE]

Returned(X, response) == [X EXCEPT !.ret = <<response>>]

\* a call of self.qa_anchor.run(prompt), recorded by the parts of its prompt
AnchorCall(kind, report, question, transcript) ==
    [cap |-> "qa_anchor", kind |-> kind, report |-> report,
     question |-> question, transcript |-> transcript]

\* the call of generate_cxr_report, which runs self.reader.run
ReaderCall ==
    [cap |-> "reader", kind |-> "analysis", report |-> <<>>,
     question |-> <<>>, transcript |-> <<>>]

Called(X, call) == [X EXCEPT !.calls = Append(@, call)]

\* st.session_state[chat_history_key].append((sender, message))
Chat(X, id, sender, message) ==
    [X EXCEPT !.ss = Put(@, chat_history_key(id),
                         Append(@[chat_history_key(id)], <<sender, message>>))]

\* the content of the response built from the last transcript entry
LastEntryContent(history) ==
    IF history[Len(history)][1] = "assistant"
    THEN history[Len(history)][2]
    ELSE WaitingContent

\* "Return appropriate response based on state"
QaReturn(X, id) ==
    IF Has(X.ss, final_report_key(id))
    THEN Returned(X, X.ss[final_report_key(id)])
    ELSE IF Len(X.ss[chat_history_key(id)]) > 0
    THEN Returned(X, RunResponse(LastEntryContent(X.ss[chat_history_key(id)])))
    ELSE Returned(X, RunResponse(InProgressContent))

\* the finalization call is made: latest report and the whole chat history
FinalCalled(X, id) ==
    Called(X, AnchorCall("final", Get(X.ss, current_report_key(id), <<>>), <<>>,
                         X.ss[chat_history_key(id)]))

\* QaStopOk that leaves qa_complete as it is
QaStopOkStaysOpen(X, id, final_response) ==
    Rerun(Chat(With(With(X, final_report_key(id), final_response),
                    current_report_key(id), ValidContent(final_response)),
               id, "assistant", CompleteEntry))

\* the finalization call returned final_response
QaStopOk(X, id, final_response) ==
    Rerun(Chat(With(With(With(X, final_report_key(id), final_response),
                         current_report_key(id), ValidContent(final_response)),
                    qa_complete_key(id), TRUE),
               id, "assistant", CompleteEntry))

\* QaStopFallback that surfaces the error although current_report exists
QaStopFallbackSurfaces(X, id) == Returned(X, RunResponse(ErrorContent))

\* QaStopFallback that completes the session although no current_report
\* exists
QaStopFallbackCompletes(X, id) ==
    QaReturn(With(With(X, final_report_key(id),
                       RunResponse(Get(X.ss, current_report_key(id), <<>>))),
                  qa_complete_key(id), TRUE), id)

\* "Ensure we have a reasonable fallback report", after the error entry
QaStopFallback(X, id) ==
    IF Has(X.ss, current_report_key(id))
    THEN QaReturn(With(With(X, final_report_key(id),
                            RunResponse(X.ss[current_report_key(id)])),
                       qa_complete_key(id), TRUE), id)
    ELSE Returned(X, RunResponse(ErrorContent))

\* the branch of a stop keyword; outcome is what the finalization call does
QaStop(X, id, outcome) ==
    IF outcome.raises
    THEN QaStopFallback(Chat(FinalCalled(X, id), id, "assistant", FinalErrorEntry), id)
    ELSE QaStopOk(FinalCalled(X, id), id, RunResponse(outcome.content))

\* QaAnswerError that also discards the current report
QaAnswerErrorDropsReport(X, id) ==
    Rerun(Without(Without(Chat(X, id, "assistant", AnswerErrorEntry),
                          pending_msg_key(id)),
                  current_report_key(id)))

\* the except clause of a normal Q&A interaction
QaAnswerError(X, id) ==
    Rerun(Without(Chat(X, id, "assistant", AnswerErrorEntry), pending_msg_key(id)))

\* QaUpdate that stores the content of the update response through the
\* "valid content" fallback
QaUpdateFiltered(X, id, latest_report, update) ==
    IF update.raises
    THEN QaAnswerError(Called(X, AnchorCall("update", latest_report, <<>>,
                                            X.ss[chat_history_key(id)])), id)
    ELSE Rerun(With(Called(X, AnchorCall("update", latest_report, <<>>,
                                         X.ss[chat_history_key(id)])),
                    current_report_key(id),
                    ValidContent(RunResponse(update.content))))

\* the report-update call, made with the report of before the turn and the
\* chat history that holds the turn; update is what the call does
QaUpdate(X, id, latest_report, update) ==
    IF update.raises
    THEN QaAnswerError(Called(X, AnchorCall("update", latest_report, <<>>,
                                            X.ss[chat_history_key(id)])), id)
    ELSE Rerun(With(Called(X, AnchorCall("update", latest_report, <<>>,
                                         X.ss[chat_history_key(id)])),
                    current_report_key(id), update.content))

\* the direct answer came back: pending message and chat entry
QaReply(X, id, chat_display_content) ==
    Chat(With(X, pending_msg_key(id), chat_display_content),
         id, "assistant", chat_display_content)

\* a normal Q&A interaction on the report latest_report; answer and update
\* are what the two calls do
QaAnswerOn(X, id, user_input, latest_report, answer, update) ==
    IF answer.raises
    THEN QaAnswerError(Called(X, AnchorCall("answer", latest_report, user_input, <<>>)),
                       id)
    ELSE QaUpdate(QaReply(Called(X, AnchorCall("answer", latest_report, user_input,
                                               <<>>)),
                          id,
                          ChatDisplayContent(ValidContent(RunResponse(answer.content)))),
                  id, latest_report, update)

QaAnswer(X, id, user_input, answer, update) ==
    QaAnswerOn(X, id, user_input, Get(X.ss, current_report_key(id), <<>>),
               answer, update)

\* "Process user input", for a context whose chat input was rendered
QaInput(X, id, user_input, first, second) ==
    IF user_input = <<>> THEN QaReturn(X, id)
    ELSE IF Lower(Strip(user_input)) \in stop_words
    THEN QaStop(Chat(X, id, "user", user_input), id, first)
    ELSE QaAnswer(Chat(X, id, "user", user_input), id, user_input, first, second)

\* run_qa_session after the chat history was initialized
QaSession(X, id, user_input, first, second) ==
    IF Get(X.ss, qa_complete_key(id), FALSE) /\ Has(X.ss, final_report_key(id))
    THEN Returned(X, X.ss[final_report_key(id)])
    ELSE QaInput([Without(X, pending_msg_key(id))
                     EXCEPT !.rendered = @ \cup {<<"chat_input">>}],
                 id, user_input, first, second)

\* run_qa_session(image_id); user_input is what st.chat_input returns (<<>>
\* when nothing was submitted), first and second what the formatting
\* capability does on its first and second call
run_qa_session(X, id, user_input, first, second) ==
    QaSession([X EXCEPT !.ss = IF Has(@, chat_history_key(id)) THEN @
                               ELSE Put(@, chat_history_key(id), <<>>)],
              id, user_input, first, second)

(***************************************************************************)
(* run                                                                     *)
(***************************************************************************)
should_initialize(s, id) ==
    \/ current_image_index(s) = Len(all_reports(s))
    \/ ~Has(s, qa_complete_key(id))
    \/ ~Get(s, qa_complete_key(id), FALSE)

\* run up to "Step 1": should_initialize and what it resets
RunBegin(X, id) ==
    IF should_initialize(X.ss, id)
    THEN With(With(X, chat_history_key(id), <<>>), qa_complete_key(id), FALSE)
    ELSE X

\* "Add initial message to chat history"
SeedChat(X, id, initial_response) ==
    IF ~Has(X.ss, chat_history_key(id)) \/ X.ss[chat_history_key(id)] = <<>>
    THEN With(X, chat_history_key(id), <<<<"assistant", initial_response.content>>>>)
    ELSE X

\* the initial formatting call returned initial_response
Seeded(X, id, initial_response) ==
    SeedChat(With(With(X, qa_anchor_key(id), initial_response),
                  current_report_key(id), ValidContent(initial_response)),
             id, initial_response)

\* run after generate_cxr_report returned reader_ans: the report is stored and
\* the initial formatting call seeds the session; initial is what that call does
RunSeed(X, id, reader_ans, initial) ==
    IF initial.raises
    THEN [Called(Called(With(X, report_key(id), reader_ans), ReaderCall),
                 AnchorCall("initial", reader_ans.content, <<>>, <<>>))
             EXCEPT !.uncaught = TRUE]
    ELSE Seeded(Called(Called(With(X, report_key(id), reader_ans), ReaderCall),
                       AnchorCall("initial", reader_ans.content, <<>>, <<>>)),
                id, RunResponse(initial.content))

\* main after generator.run returned: processing_complete = False
AfterRun(Q) ==
    IF Q.rerun THEN Q ELSE With(Q, <<"processing_complete">>, FALSE)

\* "Step 2" of run and, when main is the caller, the statement after
\* generator.run
RunTail(X, id, user_input, first, second, caller) ==
    IF caller = "main"
    THEN AfterRun(run_qa_session(X, id, user_input, first, second))
    ELSE run_qa_session(X, id, user_input, first, second)

(***************************************************************************)
(* main: one pass of the Streamlit script                                  *)
(***************************************************************************)
\* what triggered the pass
Event(type, arg) == [type |-> type, arg |-> arg]

NoEvent == Event("none", <<>>)

InitGlobals(s) ==
    (<<"current_image_index">> :> 0) @@ (<<"reports_generated">> :> FALSE) @@
    (<<"all_reports_complete">> :> FALSE) @@ (<<"all_reports">> :> <<>>) @@
    (<<"processing_complete">> :> FALSE) @@ s

\* "Initialize session state for tracking progress"
MainInit(s) == IF ~Has(s, <<"current_image_index">>) THEN InitGlobals(s) ELSE s

\* "moved to a new image index but haven't reset processing_complete"
MainStale(s) ==
    IF /\ current_image_index(s) > 0
       /\ Len(all_reports(s)) < s[<<"current_image_index">>]
    THEN Put(s, <<"processing_complete">>, FALSE)
    ELSE s

\* ResetKeys without the final reports
ResetKeysKeepFinal(s) ==
    {k \in DOMAIN s : k[1] \in {"qa_complete_", "chat_history_"}}

\* the keys "Reset Processing" deletes
ResetKeys(s) ==
    {k \in DOMAIN s : k[1] \in {"qa_complete_", "final_report_", "chat_history_"}}

\* NextKeys without the key of the stored analysis result
NextKeysKeepReport(id) ==
    {qa_complete_key(id), qa_anchor_key(id),
     current_report_key(id), final_report_key(id)}

\* the keys "Process Next Image" clears for the next image
NextKeys(id) ==
    {qa_complete_key(id), report_key(id), qa_anchor_key(id),
     current_report_key(id), final_report_key(id)}

\* path_finder: the stored selection, replaced when "Load Selected Images"
\* was clicked in this pass
path_finder(s, ev) ==
    IF ev.type = "load" THEN Put(s, <<"data_paths">>, ev.arg)
    ELSE IF Has(s, <<"data_paths">>) THEN s
    ELSE Put(s, <<"data_paths">>, <<>>)

\* StoreRecords without the check of the number of records
StoreRecordsNoReset(s) == Put(s, <<"records">>, s[<<"data_paths">>])

\* StoreRecords that leaves the cursor where it is when the number of records
\* changed
StoreRecordsKeepsCursor(s) ==
    IF Has(s, <<"records">>) /\ Len(s[<<"records">>]) # Len(s[<<"data_paths">>])
    THEN (<<"records">> :> s[<<"data_paths">>]) @@
         (<<"reports_generated">> :> FALSE) @@
         (<<"all_reports_complete">> :> FALSE) @@
         (<<"processing_complete">> :> FALSE) @@ s
    ELSE Put(s, <<"records">>, s[<<"data_paths">>])

\* StoreRecords that leaves all_reports_complete as it is when the number of
\* records changed
StoreRecordsKeepsComplete(s) ==
    IF Has(s, <<"records">>) /\ Len(s[<<"records">>]) # Len(s[<<"data_paths">>])
    THEN (<<"records">> :> s[<<"data_paths">>]) @@
         (<<"current_image_index">> :> 0) @@ (<<"reports_generated">> :> FALSE) @@
         (<<"processing_complete">> :> FALSE) @@ s
    ELSE Put(s, <<"records">>, s[<<"data_paths">>])

\* "Check if the number of records has changed since last run", then
\* st.session_state.records = records
StoreRecords(s) ==
    IF Has(s, <<"records">>) /\ Len(s[<<"records">>]) # Len(s[<<"data_paths">>])
    THEN (<<"records">> :> s[<<"data_paths">>]) @@
         (<<"current_image_index">> :> 0) @@ (<<"reports_generated">> :> FALSE) @@
         (<<"all_reports_complete">> :> FALSE) @@
         (<<"processing_complete">> :> FALSE) @@ s
    ELSE Put(s, <<"records">>, s[<<"data_paths">>])

\* "If we're just starting with Generate Reports", then reports_generated = True
StartGenerating(s) ==
    IF ~s[<<"reports_generated">>]
    THEN (<<"reports_generated">> :> TRUE) @@
         (<<"current_image_index">> :> 0) @@ (<<"all_reports_complete">> :> FALSE) @@
         (<<"processing_complete">> :> FALSE) @@ s
    ELSE Put(s, <<"reports_generated">>, TRUE)

current_record(s) == s[<<"records">>][s[<<"current_image_index">>] + 1]

current_image_id(s) == ImageId(s[<<"current_image_index">>], current_record(s))

\* the text areas: the parsed sections, the Plan replaced when the user edited it
Edited(parsed_report, edit) ==
    IF edit = <<>> THEN parsed_report
    ELSE [parsed_report EXCEPT ![Len(sections)] = edit]

\* "Clear QA complete flag for the next image" and its other keys
ClearNext(s) ==
    IF s[<<"current_image_index">>] < Len(s[<<"records">>])
    THEN DelAll(s, NextKeys(current_image_id(s)))
    ELSE s

\* MarkAllComplete with > for >=
MarkAllCompleteStrict(s) ==
    IF s[<<"current_image_index">>] > Len(s[<<"records">>])
    THEN Put(s, <<"all_reports_complete">>, TRUE)
    ELSE s

\* "If this was the last image, mark all processing as complete"
MarkAllComplete(s) ==
    IF s[<<"current_image_index">>] >= Len(s[<<"records">>])
    THEN Put(s, <<"all_reports_complete">>, TRUE)
    ELSE s

\* Advance that also empties the report store
AdvanceEmptiesStore(s) ==
    (<<"current_image_index">> :> s[<<"current_image_index">>] + 1) @@
    (<<"processing_complete">> :> FALSE) @@ (<<"all_reports">> :> <<>>) @@ s

\* "Move to the next image"
Advance(s) ==
    (<<"current_image_index">> :> s[<<"current_image_index">>] + 1) @@
    (<<"processing_complete">> :> FALSE) @@ s

\* the button "Process Next Image" was clicked
ProcessNext(X) ==
    Rerun([X EXCEPT !.ss = ClearNext(MarkAllComplete(Advance(@)))])

\* save_report called by main, with the call remembered
Saving(X, content, record) ==
    [X EXCEPT !.ss = save_report(@, content, record.patient_id, record.follow_up),
              !.saved = Append(@, [content |-> content,
                                   patient_id |-> record.patient_id,
                                   follow_up |-> record.follow_up])]

\* SaveFinal with the call of save_report left out
SaveFinalNotSaved(X, id, edit) == X

\* "Retrieve the final report and parse it" down to save_report
SaveFinal(X, id, edit) ==
    IF Has(X.ss, final_report_key(id))
    THEN Saving(X, JoinSections(Edited(parse_report(X.ss[final_report_key(id)].content),
                                       edit)),
                current_record(X.ss))
    ELSE X

\* the button "Process Next Image" of image id
NextButton(X, id, ev) ==
    IF ev.type = "next" /\ ev.arg = id
    THEN ProcessNext([X EXCEPT !.rendered = @ \cup {<<"next_img_", id>>}])
    ELSE [X EXCEPT !.rendered = @ \cup {<<"next_img_", id>>}]

\* the branch of a record whose Q&A session is complete
CompleteBranch(X, id, ev, edit) == NextButton(SaveFinal(X, id, edit), id, ev)

Ended(X) == [X |-> X, at |-> "end", id |-> <<>>]

\* MainProcess with the flag of the session read as complete when it is
\* missing: get(qa_complete_key, True)
MainProcessDefaultComplete(X, ev, edit) ==
    IF X.ss[<<"current_image_index">>] >= Len(X.ss[<<"records">>])
    THEN Ended(X)
    ELSE IF Get(X.ss, qa_complete_key(current_image_id(X.ss)), TRUE)
    THEN Ended(CompleteBranch(X, current_image_id(X.ss), ev, edit))
    ELSE IF \/ ~Get(X.ss, <<"processing_complete">>, FALSE)
            \/ X.ss[<<"current_image_index">>] > Len(all_reports(X.ss))
    THEN [X |-> X, at |-> "run", id |-> current_image_id(X.ss)]
    ELSE Ended(X)

\* "Process each image/record sequentially"; at = "run" when the pass
\* reaches generator.run for image id, "end" when the pass is over
MainProcess(X, ev, edit) ==
    IF X.ss[<<"current_image_index">>] >= Len(X.ss[<<"records">>])
    THEN Ended(X)
    ELSE IF Get(X.ss, qa_complete_key(current_image_id(X.ss)), FALSE)
    THEN Ended(CompleteBranch(X, current_image_id(X.ss), ev, edit))
    ELSE IF \/ ~Get(X.ss, <<"processing_complete">>, FALSE)
            \/ X.ss[<<"current_image_index">>] > Len(all_reports(X.ss))
    THEN [X |-> X, at |-> "run", id |-> current_image_id(X.ss)]
    ELSE Ended(X)

\* the button "Generate Reports", for a context that stored the records
MainGenerate(X, ev, edit) ==
    IF ev.type = "generate" \/ X.ss[<<"reports_generated">>]
    THEN MainProcess([X EXCEPT !.ss = StartGenerating(@),
                               !.rendered = @ \cup {<<"generate">>}], ev, edit)
    ELSE Ended([X EXCEPT !.rendered = @ \cup {<<"generate">>}])

\* main from path_finder on, for a context that called it
MainRecords(X, ev, edit) ==
    IF X.ss[<<"data_paths">>] = <<>> THEN Ended(X)
    ELSE MainGenerate([X EXCEPT !.ss = StoreRecords(@)], ev, edit)

\* main from its first line to generator.run or to the end of the pass
MainHead(s, ev, edit) ==
    IF ev.type = "clear_all"
    THEN Ended(Rerun(Ctx(EmptyState)))
    ELSE IF ev.type = "reset"
    THEN Ended(Rerun(Ctx(InitGlobals(DelAll(MainStale(MainInit(s)),
                                            ResetKeys(MainStale(MainInit(s))))))))
    ELSE MainRecords(Ctx(path_finder(MainStale(MainInit(s)), ev)), ev, edit)

(***************************************************************************)
(* Inputs                                                                  *)
(***************************************************************************)
\* bound of the model: the longest selection path_finder returns
MaxRecords == 2

\* the follow-ups of the images data.py defines for a patient
PatientImages(patient_id) ==
    IF patient_id = "1" THEN {0, 1, 2} ELSE {0}

Record(patient_id, follow_up) == [patient_id |-> patient_id, follow_up |-> follow_up]

\* the selections path_finder returns here: images of patient "1" among the
\* first MaxRecords, in the order data.py lists them (a multiselect in
\* another order and the second patient are left out)
RecordLists ==
    {<<>>} \cup
    UNION {
        { [i \in 1..n |-> Record("1", f[i])] :
            f \in {g \in [1..n -> {u \in PatientImages("1") : u < MaxRecords}] :
                     \A i, j \in 1..n : i < j => g[i] < g[j]} }
        : n \in 1..MaxRecords }

StopInput == <<" ","S","T","O","P","\n">>

Question == <<"W","h","y","?">>

PlainAnswer == <<"N","o">>

ReportText == <<"*","*","P","l","a","n",":","*","*"," ","A","."," ","B">>

\* generate_cxr_report against a reader that returns a rejected content some
\* number of times and then behaves as one of finals
ReaderScripts(finals) ==
    { [i \in 1..(n + 1) |-> IF i <= n THEN Returns(<<"o","k">>) ELSE o] :
        <<n, o>> \in (0..(ATTEMPTS - 1)) \X finals }

ReaderResults(finals) ==
    {g.ret[1] : g \in {h \in {generate_cxr_report(script) :
                                script \in ReaderScripts(finals)} :
                          h.status = "returned"}}

\* the inputs of the driver with two records: what the formatting capability
\* does, what generate_cxr_report returns, what the user types into
\* st.chat_input and into the text area of the Plan section, what
\* path_finder returns
Lean ==
    [anchor |-> {Raises, Returns(ReportText)},
     reader |-> ReaderResults({Raises, Returns(Pad(MinLen))}),
     inputs |-> {StopInput, Question},
     edits  |-> { <<>>, <<"e">> },
     lists  |-> RecordLists]

\* the inputs of the driver with one record and a formatting capability that
\* also returns an empty content and a plain answer
One ==
    [anchor |-> {Raises, Returns(ReportText), Returns(<<>>), Returns(PlainAnswer)},
     reader |-> ReaderResults({Raises, Returns(Pad(MinLen))}),
     inputs |-> {StopInput, Question},
     edits  |-> { <<>>, <<"e">> },
     lists  |-> {l \in RecordLists : Len(l) <= 1}]

(***************************************************************************)
(* Actions                                                                 *)
(***************************************************************************)
\* the pass is over: its effects become the state
Commit(X) ==
    /\ ss' = X.ss
    /\ rerun' = X.rerun
    /\ rendered' = X.rendered
    /\ calls' = X.calls
    /\ uncaught' = X.uncaught
    /\ ret' = X.ret
    /\ saved' = X.saved
    /\ UNCHANGED gen

\* run after the initial formatting call: an exception of that call ends the
\* pass, otherwise the Q&A session starts
RunSeeded(I, S, id, user_input, caller) ==
    IF S.uncaught THEN Commit(S)
    ELSE \E first, second \in I.anchor :
            Commit(RunTail(S, id, user_input, first, second, caller))

\* RunRest that generates the report on every call
RunRestRegenerates(I, B, id, user_input, caller) ==
    \E reader_ans \in I.reader, initial \in I.anchor :
        RunSeeded(I, RunSeed(B, id, reader_ans, initial), id, user_input, caller)

\* generator.run(query, image, image_id) from "Step 1" on, for a context that
\* went through RunBegin
RunRest(I, B, id, user_input, caller) ==
    IF Has(B.ss, report_key(id))
    THEN \E first, second \in I.anchor :
            Commit(RunTail(B, id, user_input, first, second, caller))
    ELSE \E reader_ans \in I.reader, initial \in I.anchor :
            RunSeeded(I, RunSeed(B, id, reader_ans, initial), id, user_input, caller)

\* one pass of main triggered by ev
PassFrom(I, H, user_input) ==
    IF H.at = "run" THEN RunRest(I, RunBegin(H.X, H.id), H.id, user_input, "main")
    ELSE Commit(H.X)

Pass(I, ev) ==
    /\ event' = ev
    /\ obs' = obs
    /\ \E edit \in I.edits :
        PassFrom(I, MainHead(ss, ev, edit), IF ev.type = "chat" THEN ev.arg ELSE <<>>)

Idle == gen.status = "idle"

\* a pass nobody triggered by a widget: the rerun after st.rerun(), a refresh
PassNoInput(I) == Idle /\ Pass(I, NoEvent)

ClickClearAll(I) ==
    /\ Idle /\ ~rerun
    /\ Pass(I, Event("clear_all", <<>>))

ClickReset(I) ==
    /\ Idle /\ ~rerun
    /\ Pass(I, Event("reset", <<>>))

LoadImages(I) ==
    /\ Idle /\ ~rerun
    /\ \E records \in I.lists : Pass(I, Event("load", records))

ClickGenerate(I) ==
    /\ Idle /\ ~rerun
    /\ <<"generate">> \in rendered
    /\ Pass(I, Event("generate", <<>>))

ClickNext(I) ==
    /\ Idle /\ ~rerun
    /\ \E w \in rendered : w[1] = "next_img_" /\ Pass(I, Event("next", w[2]))

SubmitChat(I) ==
    /\ Idle /\ ~rerun
    /\ <<"chat_input">> \in rendered
    /\ \E text \in I.inputs : Pass(I, Event("chat", text))

Init ==
    /\ ss = EmptyState
    /\ rerun = FALSE
    /\ rendered = {}
    /\ calls = <<>>
    /\ uncaught = FALSE
    /\ ret = <<>>
    /\ gen = GenIdle
    /\ saved = <<>>
    /\ event = NoEvent
    /\ obs = NoAttempts

Driver(I) ==
    \/ PassNoInput(I)
    \/ ClickClearAll(I)
    \/ ClickReset(I)
    \/ LoadImages(I)
    \/ ClickGenerate(I)
    \/ ClickNext(I)
    \/ SubmitChat(I)

Next == Driver(Lean)

Spec == Init /\ [][Next]_vars

(***************************************************************************)
(* The driver started fresh on one selection: images are loaded only while *)
(* no records are stored (at the start and after "Clear All")              *)
(***************************************************************************)
LoadOnce(I) ==
    /\ ~Has(ss, <<"records">>)
    /\ LoadImages(I)

NextFresh ==
    \/ PassNoInput(Lean)
    \/ ClickClearAll(Lean)
    \/ ClickReset(Lean)
    \/ LoadOnce(Lean)
    \/ ClickGenerate(Lean)
    \/ ClickNext(Lean)
    \/ SubmitChat(Lean)

SpecFresh == Init /\ [][NextFresh]_vars

(***************************************************************************)
(* The driver together with direct calls of save_report, run and           *)
(* run_qa_session                                                          *)
(***************************************************************************)
MaxStore == 3

\* the inputs of the driver with one record, and the arguments of the direct
\* calls of save_report
Api ==
    [anchor |-> {Returns(ReportText)},
     reader |-> ReaderResults({Returns(Pad(MinLen))}),
     inputs |-> {StopInput},
     edits  |-> { <<>>, <<"e">> },
     lists  |-> {l \in RecordLists : Len(l) <= 1},
     contents |-> { <<"a">>, <<"b">> },
     patients |-> {"1", Unknown},
     follow_ups |-> {u \in PatientImages("1") : u < MaxRecords}]

\* the image ids that have a session
Sessions(s) == {k[2] : k \in {x \in DOMAIN s : x[1] = "qa_complete_"}}

\* save_report(report_content, patient_id, follow_up) called directly, while
\* the store has room
CallSaveReport(I) ==
    /\ Idle /\ ~rerun
    /\ \E report_content \in I.contents, patient_id \in I.patients,
          follow_up \in I.follow_ups :
        /\ Len(save_report(ss, report_content, patient_id, follow_up)[<<"all_reports">>])
              <= MaxStore
        /\ ss' = save_report(ss, report_content, patient_id, follow_up)
        /\ saved' = <<[content |-> report_content, patient_id |-> patient_id,
                       follow_up |-> follow_up]>>
    /\ event' = Event("save_report", <<>>)
    /\ calls' = <<>>
    /\ UNCHANGED <<rerun, rendered, uncaught, ret, gen, obs>>

\* generator.run(query, image, image_id) called directly for an image that has
\* a session; nothing is submitted to st.chat_input
CallRun(I) ==
    /\ Idle /\ ~rerun
    /\ \E id \in Sessions(ss) :
        /\ event' = Event("run", id)
        /\ RunRest(I, RunBegin(Ctx(ss), id), id, <<>>, "api")
    /\ obs' = obs

\* generator.run_qa_session(image_id) called directly for an image that has a
\* session; nothing is submitted to st.chat_input
CallRunQaSession(I) ==
    /\ Idle /\ ~rerun
    /\ \E id \in Sessions(ss) :
        /\ event' = Event("run_qa_session", id)
        /\ \E first, second \in I.anchor :
              Commit(run_qa_session(Ctx(ss), id, <<>>, first, second))
    /\ obs' = obs

NextApi ==
    \/ Driver(Api)
    \/ CallSaveReport(Api)
    \/ CallRun(Api)
    \/ CallRunQaSession(Api)

SpecApi == Init /\ [][NextApi]_vars

\* the driver with one record and the richer formatting capability
NextOne == Driver(One)

SpecOne == Init /\ [][NextOne]_vars

(***************************************************************************)
(* generate_cxr_report attempt by attempt, against a reader that can do    *)
(* anything of GateOutcomes in every attempt                               *)
(***************************************************************************)
\* how the code's gate took what the reader did
Verdict(outcome) ==
    IF outcome.raises THEN "raise"
    ELSE IF GateRejects(outcome.content) THEN "reject" ELSE "pass"

GenCall ==
    /\ gen.status = "idle"
    /\ gen' = GenEnter
    /\ obs' = NoAttempts
    /\ event' = Event("generate_cxr_report", <<>>)
    /\ UNCHANGED <<ss, rerun, rendered, calls, uncaught, ret, saved>>

GenAttempt ==
    /\ gen.status = "running"
    /\ \E outcome \in GateOutcomes :
        /\ gen' = GenStep(gen, outcome)
        /\ obs' = [verdicts |-> Append(obs.verdicts, Verdict(outcome)),
                   last |-> <<outcome>>]
    /\ UNCHANGED <<ss, rerun, rendered, calls, uncaught, ret, saved, event>>

GenReturn ==
    /\ gen.status = "returned"
    /\ ret' = gen.ret
    /\ gen' = GenIdle
    /\ UNCHANGED <<ss, rerun, rendered, calls, uncaught, saved, event, obs>>

NextGen == GenCall \/ GenAttempt \/ GenReturn

SpecGen == Init /\ [][NextGen]_vars

(***************************************************************************)
(* parse_report called once on a text made of section markers and of the  *)
(* pieces of text around them                                              *)
(***************************************************************************)
MaxMarkers == 4

\* what stands before, between and after the markers of a text
Fillers == { <<>>, <<" ","a","\n">> }

\* the text of the markers ms (section numbers) with the fillers f around
\* them, from marker number i on
RECURSIVE BuildText(_, _, _)
BuildText(ms, f, i) ==
    IF i > Len(ms) THEN f[i]
    ELSE f[i] \o Marker(sections[ms[i]]) \o BuildText(ms, f, i + 1)

\* the report texts parse_report is called with: up to max markers in any
\* order, repeated or missing
ParseTexts(max) ==
    UNION { UNION { {BuildText(ms, f, 1) : f \in [1..(n + 1) -> Fillers]}
                    : ms \in [1..n -> 1..Len(sections)] }
            : n \in 0..max }

\* parse_report(report_content), called once
CallParseReport ==
    /\ event = NoEvent
    /\ \E report_content \in ParseTexts(MaxMarkers) :
        /\ event' = Event("parse_report", report_content)
        /\ ret' = <<parse_report(report_content)>>
    /\ UNCHANGED <<ss, rerun, rendered, calls, uncaught, gen, saved, obs>>

NextParse == CallParseReport

SpecParse == Init /\ [][NextParse]_vars

(***************************************************************************)
(* The chat reply of one direct answer, for responses made of section      *)
(* names, full stops, blanks and letters                                   *)
(***************************************************************************)
MaxTokens == 4

ReplyTokens ==
    { <<"P","l","a","n",":">>, <<"F","i","n","d","i","n","g","s",":">>,
      <<".">>, <<" ">>, <<"a">>, <<"b">> }

RECURSIVE Concat(_)
Concat(pieces) ==
    IF pieces = <<>> THEN <<>> ELSE Head(pieces) \o Concat(Tail(pieces))

\* the contents of the response of the direct-answer call: up to max tokens
ReplyTexts(max) ==
    UNION { {Concat(ts) : ts \in [1..n -> ReplyTokens]} : n \in 0..max }

\* "Ensure we have valid content" and "Check if response has report format"
\* for one response of the direct-answer call
CallChatDisplay ==
    /\ event = NoEvent
    /\ \E content \in ReplyTexts(MaxTokens) :
        /\ event' = Event("chat_display", content)
        /\ ret' = <<ChatDisplayContent(ValidContent(RunResponse(content)))>>
    /\ UNCHANGED <<ss, rerun, rendered, calls, uncaught, gen, saved, obs>>

NextReply == CallChatDisplay

SpecReply == Init /\ [][NextReply]_vars

(***************************************************************************)
(* The attempt loop: C6, C7, C8                                            *)
(***************************************************************************)
\* the attempts of the activation so far
Attempts == Len(obs.verdicts)

\* the quality gate as it is specified: long enough, and none of the banned
\* phrases as a substring whatever the letter case
AcceptsAsSpecified(content) ==
    /\ Len(content) >= MinLen
    /\ \A word \in ban_words : ~Contains(Lower(word), Lower(content))

\* C6: the result of an attempt before the 15th is accepted (the loop stops
\* and returns it) if and only if its content has at least 500 characters
\* and holds none of "sorry", "certainly", "AI" in any letter case.
C6_AcceptsIffLongAndClean ==
    (/\ gen.status # "idle"
     /\ Attempts > 0
     /\ Attempts < ATTEMPTS
     /\ obs.verdicts[Attempts] # "raise")
    => (gen.status = "returned" <=> AcceptsAsSpecified(obs.last[1].content))

\* C7: generate_cxr_report makes at most 15 calls of the reader; while
\* it runs no attempt has passed the gate and fewer than 15 were made; when
\* it returns without an exception of the reader, it made as many calls as
\* attempts, the last attempt is the first that passed the gate or else the
\* 15th, and the value returned is the result of that last attempt.
C7_ReturnsFirstPassOrFifteenth ==
    /\ gen.status # "idle" => gen.calls = Attempts
    /\ Attempts <= ATTEMPTS
    /\ gen.status = "running" =>
          /\ Attempts < ATTEMPTS
          /\ \A k \in 1..Attempts : obs.verdicts[k] = "reject"
    /\ (gen.status = "returned" /\ \A k \in 1..Attempts : obs.verdicts[k] # "raise") =>
          /\ Attempts >= 1
          /\ \A k \in 1..(Attempts - 1) : obs.verdicts[k] = "reject"
          /\ obs.verdicts[Attempts] = "pass" \/ Attempts = ATTEMPTS
          /\ gen.ret = <<RunResponse(obs.last[1].content)>>

\* fifteen attempts, none passed the gate, and the fifteenth was returned
C7_Witness ==
    /\ gen.status = "returned"
    /\ Attempts = ATTEMPTS
    /\ \A k \in 1..Attempts : obs.verdicts[k] = "reject"

\* C8: once the reader has raised, generate_cxr_report has returned (it
\* makes no further attempt and raises nothing): the exception is its last
\* attempt and the result is the error text.
C8_ReaderErrorEndsLoop ==
    (\E k \in 1..Attempts : obs.verdicts[k] = "raise") =>
        /\ obs.verdicts[Attempts] = "raise"
        /\ \A k \in 1..(Attempts - 1) : obs.verdicts[k] = "reject"
        /\ gen.status \in {"returned", "idle"}
        /\ gen.status = "returned" =>
              /\ gen.calls = Attempts
              /\ gen.ret = <<RunResponse(ErrorGeneratingReport)>>
        /\ gen.status = "idle" => ret = <<RunResponse(ErrorGeneratingReport)>>

\* the reader raised in an attempt after the first
C8_Witness ==
    /\ gen.status = "returned"
    /\ Attempts > 1
    /\ obs.verdicts[Attempts] = "raise"


(***************************************************************************)
(* The Q&A session under the driver: C2, C3, C4, C5, C10                   *)
(***************************************************************************)
\* the cursor points at a record
AtRecord(s) ==
    /\ Has(s, <<"current_image_index">>)
    /\ Has(s, <<"records">>)
    /\ s[<<"current_image_index">>] < Len(s[<<"records">>])

\* the session of image id is COMPLETE
Complete(s, id) ==
    Get(s, qa_complete_key(id), FALSE) /\ Has(s, final_report_key(id))

IsPrefix(a, b) == Len(a) <= Len(b) /\ SubSeq(b, 1, Len(a)) = a

\* C2: a pass in which "stop" (any case, surrounding whitespace) is
\* submitted to a session that is not COMPLETE ends with qa_complete true and
\* a final_report of non-empty content, whatever the formatting capability
\* does and whether or not current_report exists.
C2_StopCompletes ==
    [][(/\ event'.type = "chat"
        /\ Lower(Strip(event'.arg)) = <<"s","t","o","p">>
        /\ AtRecord(ss)
        /\ ~Complete(ss, current_image_id(ss)))
       => /\ Get(ss', qa_complete_key(current_image_id(ss)), FALSE)
          /\ Has(ss', final_report_key(current_image_id(ss)))
          /\ ss'[final_report_key(current_image_id(ss))].content # <<>>]_vars

\* C3: a pass in which a text that is no stop keyword is submitted to a
\* session that is not COMPLETE leaves qa_complete false and makes
\* chat_history the previous chat_history followed by exactly one user
\* entry and one assistant entry.
C3_QuestionAppendsTwo ==
    [][(/\ event'.type = "chat"
        /\ Lower(Strip(event'.arg)) \notin stop_words
        /\ AtRecord(ss)
        /\ ~Complete(ss, current_image_id(ss)))
       => /\ ~Get(ss', qa_complete_key(current_image_id(ss)), FALSE)
          /\ Has(ss', chat_history_key(current_image_id(ss)))
          /\ LET before == Get(ss, chat_history_key(current_image_id(ss)), <<>>)
                 after  == ss'[chat_history_key(current_image_id(ss))]
             IN  /\ Len(after) = Len(before) + 2
                 /\ IsPrefix(before, after)
                 /\ after[Len(before) + 1] = <<"user", event'.arg>>
                 /\ after[Len(before) + 2][1] = "assistant"]_vars

\* C4: a driver pass that is no reset and keeps the cursor on the same image
\* keeps the chat_history of that image as a prefix of the chat_history at
\* the end of the pass.
C4_ChatHistoryOnlyGrows ==
    [][(/\ event'.type \in {"none", "load", "generate", "next", "chat"}
        /\ AtRecord(ss)
        /\ AtRecord(ss')
        /\ current_image_id(ss') = current_image_id(ss)
        /\ Has(ss, chat_history_key(current_image_id(ss))))
       => /\ Has(ss', chat_history_key(current_image_id(ss)))
          /\ IsPrefix(ss[chat_history_key(current_image_id(ss))],
                      ss'[chat_history_key(current_image_id(ss))])]_vars

\* C5: no driver pass ends by an exception of a delegated capability that
\* nobody caught.
C5_NoFailurePropagates == ~uncaught

\* C10: a step that increases current_image_index increases it by one and
\* starts in a state where qa_complete of the record at the cursor is true.
C10_AdvanceOnlyWhenComplete ==
    [][(/\ Has(ss, <<"current_image_index">>)
        /\ Has(ss', <<"current_image_index">>)
        /\ ss'[<<"current_image_index">>] > ss[<<"current_image_index">>])
       => /\ ss'[<<"current_image_index">>] = ss[<<"current_image_index">>] + 1
          /\ AtRecord(ss)
          /\ Get(ss, qa_complete_key(current_image_id(ss)), FALSE)]_vars

\* "Process Next Image" moved the cursor from the first record to the second
C10_Witness ==
    /\ event.type = "next"
    /\ rerun
    /\ Has(ss, <<"current_image_index">>)
    /\ ss[<<"current_image_index">>] = 1
    /\ Len(ss[<<"records">>]) = 2

(***************************************************************************)
(* The report store and the re-entry of a COMPLETE session: C1, C9         *)
(***************************************************************************)
\* the positions of the store that hold an entry of patient_id, follow_up
EntriesOf(s, patient_id, follow_up) ==
    {i \in 1..Len(all_reports(s)) :
        /\ all_reports(s)[i].patient_id = patient_id
        /\ all_reports(s)[i].follow_up = follow_up}

\* the contents the store holds for patient_id, follow_up
ContentsOf(s, patient_id, follow_up) ==
    {all_reports(s)[i].content : i \in EntriesOf(s, patient_id, follow_up)}

\* the positions of the save_report calls for patient_id, follow_up in sv
SavesOf(sv, patient_id, follow_up) ==
    {i \in 1..Len(sv) : sv[i].patient_id = patient_id /\ sv[i].follow_up = follow_up}

\* the (patient_id, follow_up) pairs of a known patient in the store or saved
KnownPairs(s, sv) ==
    {<<all_reports(s)[i].patient_id, all_reports(s)[i].follow_up>> :
        i \in {j \in 1..Len(all_reports(s)) : all_reports(s)[j].patient_id # Unknown}}
    \cup
    {<<sv[i].patient_id, sv[i].follow_up>> :
        i \in {j \in 1..Len(sv) : sv[j].patient_id # Unknown}}

\* C1: the store holds at most one entry per (patient_id, follow_up) of a
\* known patient, and the content of that entry is the content of the most
\* recent save for the pair: after a step that saved for the pair the store
\* holds exactly the content saved last, and a step that did not save for
\* the pair leaves the pair's content as it was or empties the store.
C1_OneEntryPerKnownPair ==
    /\ [](\A pair \in KnownPairs(ss, saved) :
            /\ Cardinality(EntriesOf(ss, pair[1], pair[2])) <= 1
            /\ SavesOf(saved, pair[1], pair[2]) # {} =>
                  ContentsOf(ss, pair[1], pair[2]) =
                    {saved[CHOOSE i \in SavesOf(saved, pair[1], pair[2]) :
                               \A j \in SavesOf(saved, pair[1], pair[2]) : j <= i].content})
    /\ [][\A pair \in KnownPairs(ss, <<>>) :
            SavesOf(saved', pair[1], pair[2]) = {} =>
                \/ ContentsOf(ss', pair[1], pair[2]) = ContentsOf(ss, pair[1], pair[2])
                \/ all_reports(ss') = <<>>]_vars

\* a direct save replaced the entry of a known pair by another content while
\* the store also holds an entry of an unknown patient
C1_Witness ==
    /\ event.type = "save_report"
    /\ Len(saved) = 1
    /\ saved[1].patient_id # Unknown
    /\ saved[1].content = <<"b">>
    /\ Len(all_reports(ss)) = 2
    /\ all_reports(ss)[1].patient_id = Unknown
    /\ all_reports(ss)[2] = saved[1]

KeyUnchanged(k) ==
    /\ Has(ss, k) <=> Has(ss', k)
    /\ Has(ss, k) => ss'[k] = ss[k]

\* the step re-enters the session of image id: a driver pass with the cursor
\* on the image, or a direct call of run or run_qa_session for it
Reenters(id) ==
    \/ event'.type \in {"run", "run_qa_session"} /\ event'.arg = id
    \/ /\ event'.type \in {"none", "load", "generate", "next", "chat"}
       /\ AtRecord(ss)
       /\ current_image_id(ss) = id

\* C9: a step that re-enters a COMPLETE session calls no delegated
\* capability, leaves qa_complete, final_report, current_report and
\* chat_history of the session as they were and, when it is a call of run or
\* run_qa_session, returns the stored final_report.
C9_CompleteIsFrozen ==
    [][\A id \in Sessions(ss) :
        (Complete(ss, id) /\ Reenters(id)) =>
            /\ calls' = <<>>
            /\ KeyUnchanged(qa_complete_key(id))
            /\ KeyUnchanged(final_report_key(id))
            /\ KeyUnchanged(current_report_key(id))
            /\ KeyUnchanged(chat_history_key(id))
            /\ event'.type \in {"run", "run_qa_session"} =>
                  ret' = <<ss[final_report_key(id)]>>]_vars

(***************************************************************************)
(* The cursor and the store: C11, C12                                      *)
(***************************************************************************)
\* the store of s holds an entry of the record at the cursor of s0
StoredAtCursor(s, s0) ==
    EntriesOf(s, current_record(s0).patient_id, current_record(s0).follow_up) # {}

\* C11: a step that moves the cursor forward moves it by exactly one, from a
\* record whose (patient_id, follow_up) already has an entry in the store
\* before the step, and the entry is in the store after it.
C11_AdvanceAfterSave ==
    [][(/\ Has(ss, <<"current_image_index">>)
        /\ Has(ss', <<"current_image_index">>)
        /\ ss'[<<"current_image_index">>] > ss[<<"current_image_index">>])
       => /\ ss'[<<"current_image_index">>] = ss[<<"current_image_index">>] + 1
          /\ event'.type = "next"
          /\ AtRecord(ss)
          /\ StoredAtCursor(ss, ss)
          /\ StoredAtCursor(ss', ss)]_vars

\* the cursor was moved past the second record, both records being stored
C11_Witness ==
    /\ event.type = "next"
    /\ rerun
    /\ Has(ss, <<"current_image_index">>)
    /\ ss[<<"current_image_index">>] = 2
    /\ Len(ss[<<"records">>]) = 2
    /\ Len(all_reports(ss)) = 2

\* every record was advanced past
AllAdvanced(s) ==
    /\ Has(s, <<"current_image_index">>)
    /\ Has(s, <<"records">>)
    /\ s[<<"current_image_index">>] = Len(s[<<"records">>])

\* C12: started fresh on N records of distinct (patient_id, follow_up), once
\* the cursor is past every record the cursor equals N, all_reports_complete
\* is true and the store holds exactly N entries, one per record, however
\* often the COMPLETE sessions were rendered and saved again.
C12_AllProcessedStoresEach ==
    AllAdvanced(ss) =>
        /\ ss[<<"all_reports_complete">>]
        /\ Len(all_reports(ss)) = Len(ss[<<"records">>])
        /\ \A i \in 1..Len(ss[<<"records">>]) :
              Cardinality(EntriesOf(ss, ss[<<"records">>][i].patient_id,
                                    ss[<<"records">>][i].follow_up)) = 1

\* both records are advanced past and a further pass rendered the result
C12_Witness ==
    /\ AllAdvanced(ss)
    /\ Len(ss[<<"records">>]) = 2
    /\ Len(all_reports(ss)) = 2
    /\ event.type = "none"
    /\ ~rerun
    /\ Len(saved) = 0

(***************************************************************************)
(* Reset and initialization of a session: C13, C14, C17                    *)
(***************************************************************************)
\* the prefixes of the per-image session keys
SessionPrefixes ==
    {"chat_history_", "qa_complete_", "final_report_", "report_",
     "current_report_", "pending_msg_"}

\* C13: after "Reset Processing" no per-image session key remains for any
\* image and current_image_index is 0.
C13_ResetClearsSessions ==
    event.type = "reset" =>
        /\ \A k \in DOMAIN ss : k[1] \notin SessionPrefixes
        /\ ss[<<"current_image_index">>] = 0

\* the step is a driver pass that processed the record at the cursor: it
\* reached generator.run
Processes(id) ==
    /\ event'.type \in {"none", "load", "generate", "next", "chat"}
    /\ current_image_id(ss') = id
    /\ <<"chat_input">> \in rendered' \/ uncaught'

\* the image has no session: never processed, or reset
NoSession(s, id) ==
    /\ ~Has(s, chat_history_key(id))
    /\ ~Has(s, qa_complete_key(id))
    /\ ~Has(s, final_report_key(id))

\* C14: the driver pass that processes a record whose session was reset
\* initializes it from scratch: the analysis capability and the initial
\* formatting call are invoked anew and, when they return, current_report
\* is the new initial report and chat_history is exactly one assistant
\* entry equal to it.
C14_ResetSessionStartsAnew ==
    [][(/\ AtRecord(ss')
        /\ Processes(current_image_id(ss'))
        /\ NoSession(ss, current_image_id(ss')))
       => /\ Len(calls') >= 2
          /\ calls'[1] = ReaderCall
          /\ calls'[2].kind = "initial"
          /\ ~uncaught' =>
                /\ Has(ss', current_report_key(current_image_id(ss')))
                /\ ss'[chat_history_key(current_image_id(ss'))] =
                      <<<<"assistant",
                          ss'[current_report_key(current_image_id(ss'))]>>>>]_vars

\* no per-image session key of image id is in s
NoSessionKeys(s, id) ==
    \A k \in DOMAIN s : ~(k[1] \in SessionPrefixes /\ k[2] = id)

\* C17: the first driver pass that processes an image without session
\* keys, both capabilities returning, ends with qa_complete false,
\* current_report equal to the initial formatted report (the content of the
\* response of the initial formatting call) and chat_history exactly one
\* assistant entry whose text is that report.
C17_FirstPassAwaitsInput ==
    [][(/\ AtRecord(ss')
        /\ Processes(current_image_id(ss'))
        /\ NoSessionKeys(ss, current_image_id(ss'))
        /\ ~uncaught'
        /\ calls'[1] = ReaderCall)
       => /\ Has(ss', qa_complete_key(current_image_id(ss')))
          /\ ~ss'[qa_complete_key(current_image_id(ss'))]
          /\ ss'[current_report_key(current_image_id(ss'))] =
                ss'[qa_anchor_key(current_image_id(ss'))].content
          /\ ss'[chat_history_key(current_image_id(ss'))] =
                <<<<"assistant",
                    ss'[current_report_key(current_image_id(ss'))]>>>>]_vars

\* the step called save_report once, with entry
SavedOne(entry) == saved' = <<entry>>

\* C15: save_report with patient_id = "Unknown" removes no entry, whatever
\* follow-ups the store holds: the store afterwards is the store of before
\* with the new entry appended.
C15_UnknownNeverRemoves ==
    [][\A content \in Api.contents, follow_up \in Api.follow_ups :
          SavedOne([content |-> content, patient_id |-> Unknown,
                    follow_up |-> follow_up])
          => all_reports(ss') =
                Append(all_reports(ss), [content |-> content,
                                         patient_id |-> Unknown,
                                         follow_up |-> follow_up])]_vars

\* a save for an unknown patient left two earlier entries of an unknown
\* patient with the same follow-up in the store
C15_Witness ==
    /\ event.type = "save_report"
    /\ Len(saved) = 1
    /\ saved[1].patient_id = Unknown
    /\ Cardinality(EntriesOf(ss, Unknown, saved[1].follow_up)) >= 3

\* the entry matches the arguments of the save
Matches(report, entry) ==
    /\ report.patient_id = entry.patient_id
    /\ report.follow_up = entry.follow_up

\* the positions of store whose entry does not match entry, in order
RECURSIVE OthersFrom(_, _, _)
OthersFrom(store, entry, i) ==
    IF i > Len(store) THEN <<>>
    ELSE (IF Matches(store[i], entry) THEN <<>> ELSE <<i>>)
            \o OthersFrom(store, entry, i + 1)

\* C16: save_report with a known patient_id removes all and only the
\* entries whose patient_id and follow_up both equal the arguments: the
\* store afterwards lists the entries that differ in patient_id or in
\* follow_up, unchanged and in their order of before, and then the new
\* entry.
C16_KnownRemovesExactMatches ==
    [][(/\ Len(saved') = 1
        /\ saved'[1].patient_id # Unknown)
       => /\ Len(all_reports(ss')) =
                Len(OthersFrom(all_reports(ss), saved'[1], 1)) + 1
          /\ all_reports(ss')[Len(all_reports(ss'))] = saved'[1]
          /\ \A n \in 1..Len(OthersFrom(all_reports(ss), saved'[1], 1)) :
                all_reports(ss')[n] =
                   all_reports(ss)[OthersFrom(all_reports(ss), saved'[1], 1)[n]]]_vars

\* a save for a known patient replaced the entry of its pair, which stood
\* first, and kept an entry of the other follow-up and an entry of an
\* unknown patient with the same follow-up, in their order
C16_Witness ==
    /\ event.type = "save_report"
    /\ Len(saved) = 1
    /\ saved[1].patient_id # Unknown
    /\ Len(all_reports(ss)) = 3
    /\ all_reports(ss)[1].patient_id = saved[1].patient_id
    /\ all_reports(ss)[1].follow_up # saved[1].follow_up
    /\ all_reports(ss)[2].patient_id = Unknown
    /\ all_reports(ss)[2].follow_up = saved[1].follow_up
    /\ all_reports(ss)[3] = saved[1]

\* the step is a pass in which a stop keyword is submitted to the session
\* of the current image, which is not COMPLETE
StopSubmitted ==
    /\ event'.type = "chat"
    /\ Lower(Strip(event'.arg)) \in stop_words
    /\ AtRecord(ss)
    /\ ~Complete(ss, current_image_id(ss))

\* the finalization call of the step raised: run_qa_session wrote the error
\* entry of its except clause
FinalizationRaised ==
    \E i \in 1..Len(ss'[chat_history_key(current_image_id(ss))]) :
        ss'[chat_history_key(current_image_id(ss))][i] =
            <<"assistant", FinalErrorEntry>>

\* the calls of the formatting capability among cs
FormattingCalls(cs) == {i \in 1..Len(cs) : cs[i] # ReaderCall}

\* C18: a pass in which an input whose lower-cased, stripped form is a stop
\* keyword is submitted, and whose finalization call returns, calls the
\* formatting capability exactly once, stores final_report, overwrites
\* current_report with the content of final_report, sets qa_complete and
\* ends chat_history with the user's entry followed by the terminal
\* assistant entry.
C18_StopFinalizes ==
    [][(StopSubmitted /\ ~FinalizationRaised)
       => /\ Cardinality(FormattingCalls(calls')) = 1
          /\ Has(ss', final_report_key(current_image_id(ss)))
          /\ Has(ss', current_report_key(current_image_id(ss)))
          /\ ss'[final_report_key(current_image_id(ss))].content =
                ss'[current_report_key(current_image_id(ss))]
          /\ Get(ss', qa_complete_key(current_image_id(ss)), FALSE)
          /\ Len(ss'[chat_history_key(current_image_id(ss))]) >= 2
          /\ SubSeq(ss'[chat_history_key(current_image_id(ss))],
                    Len(ss'[chat_history_key(current_image_id(ss))]) - 1,
                    Len(ss'[chat_history_key(current_image_id(ss))])) =
                << <<"user", event'.arg>>, <<"assistant", CompleteEntry>> >>]_vars

\* C19: when the finalization call raises and current_report exists, the
\* error assistant entry is appended to chat_history after the user's
\* entry, final_report is the text of current_report verbatim,
\* current_report is unchanged and the session is COMPLETE.
C19_FailedFinalizationFallsBack ==
    [][(/\ StopSubmitted
        /\ FinalizationRaised
        /\ Has(ss, current_report_key(current_image_id(ss))))
       => /\ Len(ss'[chat_history_key(current_image_id(ss))]) >= 2
          /\ SubSeq(ss'[chat_history_key(current_image_id(ss))],
                    Len(ss'[chat_history_key(current_image_id(ss))]) - 1,
                    Len(ss'[chat_history_key(current_image_id(ss))])) =
                << <<"user", event'.arg>>, <<"assistant", FinalErrorEntry>> >>
          /\ Has(ss', final_report_key(current_image_id(ss)))
          /\ ss'[final_report_key(current_image_id(ss))] =
                RunResponse(ss[current_report_key(current_image_id(ss))])
          /\ Has(ss', current_report_key(current_image_id(ss)))
          /\ ss'[current_report_key(current_image_id(ss))] =
                ss[current_report_key(current_image_id(ss))]
          /\ Complete(ss', current_image_id(ss))]_vars

\* a stop keyword was submitted, the finalization call raised and the
\* session is COMPLETE with the current report as final report
C19_Witness ==
    /\ event.type = "chat"
    /\ Lower(Strip(event.arg)) \in stop_words
    /\ AtRecord(ss)
    /\ Complete(ss, current_image_id(ss))
    /\ Has(ss, current_report_key(current_image_id(ss)))
    /\ ss[final_report_key(current_image_id(ss))].content =
          ss[current_report_key(current_image_id(ss))]
    /\ ss[chat_history_key(current_image_id(ss))]
          [Len(ss[chat_history_key(current_image_id(ss))])] =
          <<"assistant", FinalErrorEntry>>

\* the explicit error result of run_qa_session
ErrorResult == <<RunResponse(ErrorContent)>>

\* C20: when the finalization call raises and no current_report exists,
\* qa_complete stays false, no final_report is stored and the caller
\* receives the explicit error result; and a step in which run_qa_session
\* returns the explicit error result is such a step.
C20_ErrorSurfacesOnlyWithoutReport ==
    [][/\ (/\ StopSubmitted
           /\ FinalizationRaised
           /\ ~Has(ss, current_report_key(current_image_id(ss))))
          => /\ ~Get(ss', qa_complete_key(current_image_id(ss)), FALSE)
             /\ ~Has(ss', final_report_key(current_image_id(ss)))
             /\ ret' = ErrorResult
       /\ ret' = ErrorResult
          => /\ StopSubmitted
             /\ FinalizationRaised
             /\ ~Has(ss, current_report_key(current_image_id(ss)))]_vars

\* a stop keyword was submitted to a session without current_report, the
\* finalization call raised and the caller received the error result
C20_Witness ==
    /\ event.type = "chat"
    /\ Lower(Strip(event.arg)) \in stop_words
    /\ AtRecord(ss)
    /\ ret = ErrorResult
    /\ ~Has(ss, current_report_key(current_image_id(ss)))
    /\ ~Has(ss, final_report_key(current_image_id(ss)))
    /\ ~ss[qa_complete_key(current_image_id(ss))]

\* the step is a pass in which a text that is no stop keyword is submitted
\* to the session of the current image, which is not COMPLETE
QuestionSubmitted ==
    /\ event'.type = "chat"
    /\ Lower(Strip(event'.arg)) \notin stop_words
    /\ AtRecord(ss)
    /\ ~Complete(ss, current_image_id(ss))

\* a delegated call of the turn failed: the direct-answer call was the only
\* formatting call and left no pending message, or the report-update call
\* was made and the pending message of the reply was deleted
TurnFailed ==
    /\ FormattingCalls(calls') # {}
    /\ ~Has(ss', pending_msg_key(current_image_id(ss)))

\* value of key k in s, or none
Opt(s, k) == IF Has(s, k) THEN <<s[k]>> ELSE <<>>

\* C21: when the direct-answer call or the report-update call of a
\* non-stop turn fails, the error-formatted assistant entry is the last
\* entry of chat_history, current_report is as it was before the turn,
\* qa_complete stays false, and the session accepts further input: the chat
\* input was rendered and the pass that st.rerun() starts renders it again.
C21_FailedTurnKeepsReport ==
    [][/\ (QuestionSubmitted /\ TurnFailed)
          => /\ ss'[chat_history_key(current_image_id(ss))]
                   [Len(ss'[chat_history_key(current_image_id(ss))])] =
                   <<"assistant", AnswerErrorEntry>>
             /\ Opt(ss', current_report_key(current_image_id(ss))) =
                   Opt(ss, current_report_key(current_image_id(ss)))
             /\ ~Get(ss', qa_complete_key(current_image_id(ss)), FALSE)
             /\ <<"chat_input">> \in rendered'
             /\ rerun'
       /\ (/\ rerun
           /\ event.type = "chat"
           /\ AtRecord(ss)
           /\ ~Complete(ss, current_image_id(ss)))
          => /\ <<"chat_input">> \in rendered'
             /\ ~uncaught'
             /\ ~Get(ss', qa_complete_key(current_image_id(ss)), FALSE)]_vars

\* the report-update call failed after the direct answer was recorded: the
\* transcript is question, reply, error entry and the report is still there
C21_Witness ==
    /\ event.type = "chat"
    /\ Lower(Strip(event.arg)) \notin stop_words
    /\ AtRecord(ss)
    /\ Len(calls) = 2
    /\ calls[2].kind = "update"
    /\ Has(ss, current_report_key(current_image_id(ss)))
    /\ Len(ss[chat_history_key(current_image_id(ss))]) = 3
    /\ ss[chat_history_key(current_image_id(ss))][3] =
          <<"assistant", AnswerErrorEntry>>

\* the contents the formatting capability returns under One
ReturnedContents == {o.content : o \in {a \in One.anchor : ~a.raises}}

\* the last two entries of a transcript are the question and an assistant
\* entry
EndsWithTurn(transcript, question) ==
    /\ Len(transcript) >= 2
    /\ transcript[Len(transcript) - 1] = <<"user", question>>
    /\ transcript[Len(transcript)][1] = "assistant"

FinalCalls(cs) == {i \in 1..Len(cs) : cs[i].kind = "final"}

\* C23: the transcript placed in the finalization prompt is the full
\* transcript of the session: the chat_history the session had before the
\* stop was submitted (the initial assistant entry and the entries of all
\* earlier turns), in order, followed by the stop input.
C23_FinalPromptHasFullTranscript ==
    [][StopSubmitted
       => \A i \in FinalCalls(calls') :
             calls'[i].transcript =
                Append(Get(ss, chat_history_key(current_image_id(ss)), <<>>),
                       <<"user", event'.arg>>)]_vars

\* the image ids that have a qa_complete or a final_report key
SessionIds(s) ==
    {k[2] : k \in {x \in DOMAIN s : x[1] \in {"qa_complete_", "final_report_"}}}

\* C24: in every reachable state and for every image id, final_report is
\* present exactly when qa_complete is true.
C24_FinalReportIffComplete ==
    \A id \in SessionIds(ss) :
        Has(ss, final_report_key(id)) <=> Get(ss, qa_complete_key(id), FALSE)

\* one session is COMPLETE with its final report while another session is
\* in progress without one
C24_Witness ==
    \E id, other \in SessionIds(ss) :
        /\ Complete(ss, id)
        /\ Has(ss, qa_complete_key(other))
        /\ ~ss[qa_complete_key(other)]
        /\ ~Has(ss, final_report_key(other))
        /\ Has(ss, chat_history_key(other))

\* the cursor is at the length of the record list
CursorAtEnd(s) == s[<<"current_image_index">>] = Len(s[<<"records">>])

\* C25: at the end of every driver pass all_reports_complete is true if and
\* only if current_image_index equals len(records); in particular it is
\* true at the end of the pass in which the cursor reaches that length.
C25_CompleteIffCursorAtEnd ==
    (Has(ss, <<"records">>) /\ Has(ss, <<"current_image_index">>))
       => (ss[<<"all_reports_complete">>] <=> CursorAtEnd(ss))

\* the pass of "Process Next Image" moved the cursor to the end of a list of
\* MaxRecords records and set all_reports_complete
C25_Witness ==
    /\ event.type = "next"
    /\ Has(ss, <<"records">>)
    /\ Len(ss[<<"records">>]) = MaxRecords
    /\ CursorAtEnd(ss)
    /\ ss[<<"all_reports_complete">>]

\* the cursor and the completion flags of s
Progress(s) ==
    <<s[<<"current_image_index">>], s[<<"reports_generated">>],
      s[<<"all_reports_complete">>], s[<<"processing_complete">>]>>

\* C26: a driver pass in which the record source returns a list whose
\* length differs from the stored records sets the cursor to 0 and
\* reports_generated, all_reports_complete and processing_complete to false
\* and processes no record; a pass in which it returns a new list of the
\* same length leaves the cursor and the flags as they were.
C26_LengthChangeResets ==
    [][(event'.type = "load" /\ Has(ss, <<"records">>))
       => IF Len(event'.arg) # Len(ss[<<"records">>])
          THEN /\ Progress(ss') = <<0, FALSE, FALSE, FALSE>>
               /\ calls' = <<>>
          ELSE Progress(ss') = Progress(ss)]_vars

\* C26, amended: a driver pass in which the record source returns a
\* non-empty list whose length differs from the stored records sets the
\* cursor to 0 and the three flags to false, stores the list and processes
\* no record; a pass in which it returns a non-empty list of the same
\* length leaves the cursor and the flags as they were; a pass in which it
\* returns the empty list ends at once: cursor, flags and stored records
\* stay as they were.
C26_NonEmptyLengthChangeResets ==
    [][(event'.type = "load" /\ Has(ss, <<"records">>))
       => IF event'.arg = <<>>
          THEN /\ Progress(ss') = Progress(ss)
               /\ ss'[<<"records">>] = ss[<<"records">>]
               /\ calls' = <<>>
          ELSE IF Len(event'.arg) # Len(ss[<<"records">>])
          THEN /\ Progress(ss') = <<0, FALSE, FALSE, FALSE>>
               /\ ss'[<<"records">>] = event'.arg
               /\ calls' = <<>>
          ELSE /\ Progress(ss') = Progress(ss)
               /\ ss'[<<"records">>] = event'.arg]_vars

\* a list of one record was loaded and the cursor and the flags are reset,
\* while a session of the second image of an earlier, longer list exists
C26_Witness ==
    /\ event.type = "load"
    /\ Len(event.arg) = 1
    /\ ss[<<"records">>] = event.arg
    /\ Progress(ss) = <<0, FALSE, FALSE, FALSE>>
    /\ \E k \in DOMAIN ss : k[1] = "qa_complete_" /\ k[2][1] = 1

\* the pass is that of one of the two buttons that restart the workflow
Restarts == event'.type \in {"reset", "clear_all"}

InSession(s) ==
    /\ AtRecord(s)
    /\ s[<<"data_paths">>] # <<>>
    /\ s[<<"reports_generated">>]
    /\ ~Get(s, qa_complete_key(current_image_id(s)), FALSE)

\* the pass is no restart of the workflow
Proceeds == event'.type \in {"none", "load", "generate", "next", "chat"}

\* C28: the user can retry after a failed delegated call. Every pass that
\* ends in a session that is not COMPLETE renders the chat input, unless it
\* ends in st.rerun() (the pass that follows at once is such a pass) or the
\* initial formatting call raised in it; after such a pass the next pass
\* without input renders the chat input and raises nothing; and whenever a
\* stop keyword is submitted and the finalization call returns, the session
\* is COMPLETE at the end of the pass.
C28_RetryAfterFailure ==
    [][/\ (Proceeds /\ InSession(ss'))
          => \/ <<"chat_input">> \in rendered'
             \/ rerun'
             \/ /\ uncaught'
                /\ Has(ss', report_key(current_image_id(ss')))
       /\ (uncaught /\ InSession(ss) /\ event'.type = "none")
          => /\ ~uncaught'
             /\ InSession(ss')
             /\ <<"chat_input">> \in rendered'
       /\ (StopSubmitted /\ ~FinalizationRaised)
          => Complete(ss', current_image_id(ss))]_vars

\* a session whose initial formatting call had raised (no qa_anchor was
\* stored) was completed by a stop whose finalization call returned
C28_Witness ==
    /\ event.type = "chat"
    /\ AtRecord(ss)
    /\ Complete(ss, current_image_id(ss))
    /\ ~Has(ss, qa_anchor_key(current_image_id(ss)))
    /\ ss[chat_history_key(current_image_id(ss))]
          [Len(ss[chat_history_key(current_image_id(ss))])] =
          <<"assistant", CompleteEntry>>

(***************************************************************************)
(* The parser: C29, C30                                                    *)
(***************************************************************************)
\* the positions at which the marker of section number i starts in text
Occurrences(text, i) ==
    {p \in 1..Len(text) :
        /\ p + Len(Marker(sections[i])) - 1 <= Len(text)
        /\ SubSeq(text, p, p + Len(Marker(sections[i])) - 1) = Marker(sections[i])}

\* C29: parse_report returns a value for every text, with exactly the four
\* sections; a section whose marker does not occur in the text is the
\* empty string, and so are all four for a text without markers.
C29_MissingMarkerGivesEmpty ==
    event.type = "parse_report"
       => /\ Len(ret) = 1
          /\ DOMAIN ret[1] = 1..4
          /\ \A i \in 1..4 :
                Occurrences(event.arg, i) = {} => ret[1][i] = <<>>

\* parse_report returned for a text that holds the markers of Findings and
\* Plan alone, in the other order: the two other sections are empty
C29_Witness ==
    /\ event.type = "parse_report"
    /\ Len(ret) = 1
    /\ Occurrences(event.arg, 1) = {}
    /\ Occurrences(event.arg, 3) = {}
    /\ Occurrences(event.arg, 2) # {}
    /\ Occurrences(event.arg, 4) # {}
    /\ \E p \in Occurrences(event.arg, 4) :
          \A q \in Occurrences(event.arg, 2) : p < q
    /\ ret[1][1] = <<>>
    /\ ret[1][3] = <<>>
    /\ ret[1][4] # <<>>

\* the four markers occur in text and in canonical order: every occurrence
\* of the marker of a section stands before every occurrence of the marker
\* of a later section
InCanonicalOrder(text) ==
    /\ \A i \in 1..4 : Occurrences(text, i) # {}
    /\ \A i, j \in 1..4 :
          i < j => \A p \in Occurrences(text, i), q \in Occurrences(text, j) : p < q

\* the first position of the marker of section number i in text
First(text, i) ==
    CHOOSE p \in Occurrences(text, i) : \A q \in Occurrences(text, i) : p <= q

\* the text between the marker of section number i and the marker of the
\* next section, or the end of the text for the last section
Between(text, i) ==
    SubSeq(text, First(text, i) + Len(Marker(sections[i])),
           IF i < 4 THEN First(text, i + 1) - 1 ELSE Len(text))

\* C30: for a text that holds the four markers in canonical order, each
\* section is the stripped text from right after its marker to right
\* before the marker of the next section (the end of the text for Plan),
\* and holds the marker of no other section.
C30_SectionsBetweenMarkers ==
    (event.type = "parse_report" /\ InCanonicalOrder(event.arg))
       => \A i \in 1..4 :
             /\ ret[1][i] = Strip(Between(event.arg, i))
             /\ \A j \in 1..4 \ {i} : Occurrences(ret[1][i], j) = {}

\* parse_report returned for a text of the four markers in canonical
\* order: one section is empty and two are a word that stood between
\* whitespace
C30_Witness ==
    /\ event.type = "parse_report"
    /\ InCanonicalOrder(event.arg)
    /\ ret[1][1] = <<>>
    /\ ret[1][2] = <<"a">>
    /\ ret[1][4] = <<"a">>
    /\ Between(event.arg, 2) # ret[1][2]
    /\ Between(event.arg, 4) # ret[1][4]

\* the result of parsing the sections of parsed_report joined again
Reparsed(parsed_report) == parse_report(JoinSections(parsed_report))

AllEmpty == [i \in 1..4 |-> <<>>]

\* no section of parsed_report holds the marker of a section
MarkerFree(parsed_report) ==
    \A i, j \in 1..4 : Occurrences(parsed_report[i], j) = {}

\* C31 as stated: for every report text, parsing it, joining the sections
\* and parsing the joined text gives the empty string for all four
\* sections.
C31_ReparseAllEmpty ==
    event.type = "parse_report" => Reparsed(ret[1]) = AllEmpty

\* C31, amended: parsing the joined sections gives the empty string for all
\* four sections whenever no parsed section holds a marker, which is so for
\* every text without markers and every text with the four markers each
\* once in canonical order.
C31_ReparseEmptyWhenMarkerFree ==
    event.type = "parse_report"
       => /\ MarkerFree(ret[1]) => Reparsed(ret[1]) = AllEmpty
          /\ (\A i \in 1..4 : Occurrences(event.arg, i) = {}) => MarkerFree(ret[1])
          /\ (/\ InCanonicalOrder(event.arg)
              /\ \A i \in 1..4 : Cardinality(Occurrences(event.arg, i)) = 1)
             => MarkerFree(ret[1])

\* the four sections of a text in canonical order, two of them words, were
\* joined and the second parse found nothing
C31_Witness ==
    /\ event.type = "parse_report"
    /\ InCanonicalOrder(event.arg)
    /\ ret[1][2] = <<"a">>
    /\ ret[1][4] = <<"a">>
    /\ MarkerFree(ret[1])
    /\ Reparsed(ret[1]) = AllEmpty

(***************************************************************************)
(* The chat reply: C32                                                     *)
(***************************************************************************)
\* the text of the response the reply is taken from
ResponseText == ValidContent(RunResponse(event.arg))

IsReportFormat(text) == \E section \in report_sections : Contains(section, text)

\* the positions of the full stops of text
Dots(text) == {k \in 1..Len(text) : text[k] = "."}

\* the text before the final full stop of text, back to the full stop
\* before it or to the start
BeforeFinalDot(text) ==
    LET last == CHOOSE k \in Dots(text) : \A j \in Dots(text) : j <= k
        before == {k \in Dots(text) : k < last}
        from == IF before = {} THEN 1
                ELSE (CHOOSE k \in before : \A j \in before : j <= k) + 1
    IN  Strip(SubSeq(text, from, last - 1))

\* C32 as stated: the reply is the full response when the response holds
\* none of the section names; when it holds one, the reply is the text
\* before the final "." and is never the full text.
C32_ReplyBeforeFinalDot ==
    event.type = "chat_display"
       => IF IsReportFormat(ResponseText)
          THEN /\ ret[1] # ResponseText
               /\ Dots(ResponseText) # {}
               /\ ret[1] = BeforeFinalDot(ResponseText)
          ELSE ret[1] = ResponseText

\* reply is the last piece of text between full stops (or the ends of the
\* text) that is not blank, stripped
IsLastSentence(text, reply) ==
    \E lo \in 1..Len(text) : \E hi \in lo..Len(text) :
        /\ lo = 1 \/ text[lo - 1] = "."
        /\ hi = Len(text) \/ text[hi + 1] = "."
        /\ \A k \in lo..hi : text[k] # "."
        /\ \A k \in (hi + 1)..Len(text) : text[k] \in Whitespace \cup {"."}
        /\ reply = Strip(SubSeq(text, lo, hi))
        /\ reply # <<>>

\* C32, amended: the reply is the full response when the response holds
\* none of the section names; when it holds one, the reply is the last
\* non-blank piece of the response split at ".", stripped: the text before
\* the final "." when the response ends with one, the text after it
\* otherwise, and the whole stripped response when it holds no ".".
C32_ReplyLastSentence ==
    event.type = "chat_display"
       => IF IsReportFormat(ResponseText)
          THEN /\ IsLastSentence(ResponseText, ret[1])
               /\ (Dots(ResponseText) # {}
                   /\ ResponseText[Len(ResponseText)] = "."
                   /\ BeforeFinalDot(ResponseText) # <<>>)
                  => ret[1] = BeforeFinalDot(ResponseText)
               /\ Dots(ResponseText) = {} => ret[1] = Strip(ResponseText)
          ELSE ret[1] = ResponseText

\* the response "Findings:.a." gave the reply "a"
C32_Witness ==
    /\ event.type = "chat_display"
    /\ Contains(<<"F","i","n","d","i","n","g","s",":">>, event.arg)
    /\ event.arg[Len(event.arg)] = "."
    /\ Cardinality(Dots(event.arg)) = 2
    /\ ret = << <<"a">> >>

(***************************************************************************)
(* The stored analysis result: C33                                         *)
(***************************************************************************)
\* the calls of a pass that generate a report: the image-analysis capability
\* and the initial formatting call
GenerationCalls(cs) == {i \in 1..Len(cs) : cs[i].kind \in {"analysis", "initial"}}

\* C33: a driver pass that invokes the image-analysis capability or the
\* initial formatting call processes an image_id whose report_ key was absent
\* when the pass began: while report_{id} is stored (whatever its content,
\* and across Reset Processing) no pass for that id generates again.
C33_AnalysisCached ==
    [][GenerationCalls(calls') # {}
          => /\ AtRecord(ss')
             /\ ~Has(ss, report_key(current_image_id(ss')))]_vars

\* a question was submitted for an image whose stored analysis result is the
\* error content, with no saved report: the pass made formatting calls and
\* no generation call
C33_Witness ==
    /\ event.type = "chat"
    /\ AtRecord(ss)
    /\ Has(ss, report_key(current_image_id(ss)))
    /\ ss[report_key(current_image_id(ss))] = RunResponse(ErrorGeneratingReport)
    /\ calls # <<>>
    /\ GenerationCalls(calls) = {}
    /\ ss[<<"all_reports">>] = <<>>
    /\ Len(ss[chat_history_key(current_image_id(ss))]) <= 2

(***************************************************************************)
(* Leftover sessions: C34                                                  *)
(***************************************************************************)
\* the pass is the one in which Generate Reports sets the cursor to 0
GenerateRestarts ==
    /\ event'.type = "generate"
    /\ ~Get(ss, <<"reports_generated">>, FALSE)

\* the pass presented a record as COMPLETE: the button Process Next Image
\* was drawn or the final report was saved
PresentedComplete == saved' # <<>> \/ \E w \in rendered' : w[1] = "next_img_"

\* C34: the record at the cursor is presented as COMPLETE only if a stop
\* input was submitted for it after the cursor was last set to 0; so the
\* pass in which Generate Reports sets the cursor to 0, which submits no
\* input, presents no record as COMPLETE and saves no report.
C34_NoLeftoverComplete ==
    [][GenerateRestarts => ~PresentedComplete]_vars

(***************************************************************************)
(* The range of the cursor: C35                                            *)
(***************************************************************************)
\* the last pass loaded a record list that is not empty
LoadedRecords(s) ==
    /\ event.type \notin {"clear_all", "reset"}
    /\ Get(s, <<"data_paths">>, <<>>) # <<>>

\* C35: at the end of every driver pass that loaded a non-empty record
\* list, 0 <= current_image_index <= len(records).
C35_CursorInRange ==
    LoadedRecords(ss)
       => /\ ss[<<"records">>] = ss[<<"data_paths">>]
          /\ ss[<<"current_image_index">>] \in 0..Len(ss[<<"records">>])

\* a pass that loaded one record after the reports of more records were
\* saved: the cursor is at 0
C35_Witness ==
    /\ event.type = "load"
    /\ LoadedRecords(ss)
    /\ Len(ss[<<"records">>]) = 1
    /\ ss[<<"all_reports">>] # <<>>
    /\ Len(ss[<<"all_reports">>]) > Len(ss[<<"records">>])
    /\ ss[<<"current_image_index">>] = 0

(***************************************************************************)
(* Process Next Image and the next image: C36                              *)
(***************************************************************************)
\* the pass is one in which Process Next Image moved the cursor to a record
AdvancesToRecord ==
    /\ event'.type = "next"
    /\ AtRecord(ss) /\ AtRecord(ss')
    /\ ss'[<<"current_image_index">>] = ss[<<"current_image_index">>] + 1

\* the state was left by a pass in which Process Next Image moved the cursor
\* to a record
AdvancedToRecord == event.type = "next" /\ rerun /\ AtRecord(ss)

\* C36: when Process Next Image advances the cursor to a position
\* j < len(records), the pass leaves none of the keys qa_complete_, report_,
\* qa_anchor_, current_report_, final_report_ of image j and changes no key
\* of another image_id; the following pass calls the analysis capability
\* for image j, stores its report and leaves session j not COMPLETE.
C36_NextClearsNextImage ==
    [][/\ AdvancesToRecord
          => /\ \A k \in NextKeys(current_image_id(ss')) : ~Has(ss', k)
             /\ \A k \in DOMAIN ss \cup DOMAIN ss' :
                    (Len(k) = 2 /\ k[2] # current_image_id(ss')) => KeyUnchanged(k)
             /\ rerun'
       /\ AdvancedToRecord
          => /\ event'.type = "none"
             /\ AtRecord(ss') /\ current_image_id(ss') = current_image_id(ss)
             /\ calls' # <<>> /\ calls'[1] = ReaderCall
             /\ Has(ss', report_key(current_image_id(ss)))
             /\ Has(ss', qa_complete_key(current_image_id(ss)))
             /\ ~ss'[qa_complete_key(current_image_id(ss))]]_vars

\* Process Next Image moved the cursor to the second record, processed
\* before: its chat history is still stored, its report is not
C36_Witness ==
    /\ AdvancedToRecord
    /\ ss[<<"current_image_index">>] = 1
    /\ Has(ss, chat_history_key(current_image_id(ss)))
    /\ \A k \in NextKeys(current_image_id(ss)) : ~Has(ss, k)

(***************************************************************************)
(* A section whose next marker is missing: C37                             *)
(***************************************************************************)
\* the position right after the first marker of section number i in text
After(text, i) == First(text, i) + Len(Marker(sections[i]))

\* the occurrences of the marker of section number i + 1 behind the first
\* marker of section number i
Following(text, i) ==
    IF i < 4 THEN {p \in Occurrences(text, i + 1) : p >= After(text, i)} ELSE {}

\* the section of text that its own first marker and the marker of the
\* section after it delimit
OwnSection(text, i) ==
    Strip(SubSeq(text, After(text, i),
                 IF Following(text, i) = {} THEN Len(text)
                 ELSE (CHOOSE p \in Following(text, i) :
                          \A q \in Following(text, i) : p <= q) - 1))

\* C37: when the marker of a section is in the text and the marker of the
\* section right after it is not, the content of the section is the stripped
\* text from its marker to the end of the text; a later section whose marker
\* occurs behind it is held, marker included, in that content and is parsed
\* as its own section as well.
C37_MissingNextMarkerRunsToEnd ==
    event.type = "parse_report"
       => \A i \in 1..3 :
            (Occurrences(event.arg, i) # {} /\ Occurrences(event.arg, i + 1) = {})
               => /\ ret[1][i] = Strip(SubSeq(event.arg, After(event.arg, i),
                                              Len(event.arg)))
                  /\ \A j \in (i + 2)..4 :
                        (\E q \in Occurrences(event.arg, j) : q > First(event.arg, i))
                           => /\ Occurrences(ret[1][i], j) # {}
                              /\ ret[1][j] = OwnSection(event.arg, j)

\* a text with the markers of Findings and, behind it, of Plan, and without
\* the marker of Impression: Findings holds the marker of Plan, and Plan is
\* "a"
C37_Witness ==
    /\ event.type = "parse_report"
    /\ Occurrences(event.arg, 2) # {}
    /\ Occurrences(event.arg, 3) = {}
    /\ \E q \in Occurrences(event.arg, 4) : q > First(event.arg, 2)
    /\ Occurrences(ret[1][2], 4) # {}
    /\ ret[1][4] = <<"a">>

(***************************************************************************)
(* processing_complete: C38                                                *)
(***************************************************************************)
\* C38: whenever the session of the record at the cursor is COMPLETE,
\* processing_complete is true.
C38_ProcessingCompleteTracksSession ==
    (AtRecord(ss) /\ Complete(ss, current_image_id(ss)))
       => Get(ss, <<"processing_complete">>, FALSE)

====
